---- MODULE Spec2Model ----
(***************************************************************************)
(* Verification model of the fin-tax-bot ingestion and rendering pipeline. *)
(*                                                                         *)
(*   SpecFetch   - jobs/staged_fetch.py : the staged fetch ladder          *)
(*   SpecIngest  - jobs/fetch.py : ingest_one called item after item       *)
(*   SpecCycle   - jobs/fetch.py : run_ingest_cycle over a batch           *)
(*   SpecExtract - services/tax_article.py, article_text.py,               *)
(*                 nbu_article.py : the body extractors applied to a page  *)
(*   SpecPreview - services/previews.py, text_cleanup.py :                 *)
(*                 build_preview_variants, one pass of its loop at a time  *)
(*   SpecPreviewLive - the same, with every pass of the loop made in the   *)
(*                 end                                                     *)
(*   SpecDates   - services/ukrainian_dates.py : parse_ukrainian_date      *)
(*   SpecBrowser - jobs/staged_fetch.py : _playwright_fetch, one await at  *)
(*                 a time, with failures and cancellation                  *)
(*   SpecModeration - handlers/draft_make.py, handlers/moderation.py :     *)
(*                 make_cmd, approve_cmd and draft_preview_action_callback *)
(*                 called one after another, between calls of ingest_one   *)
(*   SpecRace    - jobs/fetch.py : ingest_one calls for one URL that       *)
(*                 overlap, interleaved await by await                     *)
(*                                                                         *)
(* Text is modelled as strings, read character by character.  Cyrillic     *)
(* literals of the source are written in Latin transliteration because     *)
(* the module is restricted to ASCII; the bullet and the dash the          *)
(* extractors insert are written "*" and "-", the ellipsis and the bullet   *)
(* of the preview renderer "^" and "@", the backtick "$".                  *)
(***************************************************************************)
EXTENDS Integers, Sequences, FiniteSets, TLC

VARIABLES
    fPc,        \* staged_fetch_html: "idle" | "running" | "done"
    fPlan,      \* _FetchPlan built for the call (url, domain, warmup_url)
    fStep,      \* index into steps of the next factory to await
    fLog,       \* attempt log: one record per log.info of the loop
    fResult,    \* return value of the finished call (None or the html)
    fCaps,      \* module globals _HAS_CURL_CFFI / _HAS_PLAYWRIGHT
    articles,   \* rows of the articles table
    iPc,        \* ingest_one: "idle" | "lookup" | "fetch" | "commit"
    iCall,      \* locals of the ingest_one call in progress
    iHist,      \* finished ingest_one calls, in order (observation only)
    cPc,        \* run_ingest_cycle: "off" | "running" | "done" | "aborted"
    cBatch,     \* the sources of the cycle, each with its items
    cPos,       \* <<source index, item index>> of the next item
    cResults,   \* Counter of verdicts of the cycle
    xShape,     \* the shape of the page handed to an extractor
    xPage,      \* the page: its markup and its parsed tree
    xOut,       \* the extractor applied and what it returned
    pPc,        \* build_preview_variants: "idle" | the variant built | "returned"
    pInput,     \* its arguments: title, review_md, link_url, tags
    pLines,     \* header, link_line, tags_line
    pReview,    \* review_without_title
    pLimit,     \* limit of the build_variant call in progress
    pReviewMd,  \* review_candidate_md of the last pass of its loop
    pReviewHtml, \* review_candidate_html of the last pass
    pText,      \* text_candidate of the last pass
    pLength,    \* candidate_length of the last pass
    pPass,      \* what the last pass did: returned a text or lowered the limit
    pOut,       \* the text returned for each variant
    pPath,      \* how each variant came to fit (observation only)
    dValue,     \* parse_ukrainian_date: the text handed to it
    dReference, \* its reference argument
    dOut,       \* what it returned (NotParsed before the call)
    bPc,        \* _playwright_fetch: "idle" | the await it stands at | "done"
    bPlan,      \* its plan
    bDriver,    \* the playwright driver: "none" | "running" | "stopped"
    bBrowser,   \* the browser launched: "none" | "open" | "closed"
    bContext,   \* the browser context: "none" | "open" | "closed"
    bPages,     \* the number of pages open
    bExc,       \* the exception in flight: "none" | "error" | "cancelled"
    bResult,    \* status and content read so far, then the _StepResult
    bEnd,       \* how the call ended: "" | "returned" | "cancelled"
    bLog,       \* the awaits made, each with its outcome
    mDrafts,    \* rows of the drafts table, in the order of their ids
    mPreviews,  \* rows of the draft_previews table
    mChannel,   \* the messages sent to settings.CHANNEL_ID, in order
    mChat,      \* the previews shown in the admin's chat, in order
    mLast,      \* the command or callback handled last, with its outcome
    rItem,      \* the feed entry the concurrent ingest_one calls are for
    rCalls      \* each concurrent ingest_one call: its position and what it holds

fetchVars == <<fPc, fPlan, fStep, fLog, fResult, fCaps>>
ingestVars == <<articles, iPc, iCall, iHist>>
cycleVars == <<cPc, cBatch, cPos, cResults>>

textVars == <<xShape, xPage, xOut>>

previewVars ==
    <<pPc, pInput, pLines, pReview, pLimit, pReviewMd, pReviewHtml, pText,
      pLength, pPass, pOut, pPath>>

dateVars == <<dValue, dReference, dOut>>

browserVars == <<bPc, bPlan, bDriver, bBrowser, bContext, bPages, bExc, bResult, bEnd, bLog>>

\* The variables of the parts around the pipeline: the browser step await
\* by await, the moderation handlers, and ingest_one calls that overlap.
modVars == <<mDrafts, mPreviews, mChannel, mChat, mLast>>

raceVars == <<rItem, rCalls>>

botVars == <<browserVars, modVars, raceVars>>

\* The variables of the pipeline's model proper.
coreVars == <<fetchVars, ingestVars, cycleVars, textVars, previewVars, dateVars>>

vars == <<coreVars, botVars>>

None == "None"

(***************************************************************************)
(* jobs/staged_fetch.py                                                    *)
(***************************************************************************)

TAX_HOST == "www.tax.gov.ua"

\* URLs handed to staged_fetch_html, as (host, path) pairs.
FetchUrls == { [host |-> "tax.gov.ua", path |-> "/media-tsentr/novini/1.html"],
               [host |-> "bank.gov.ua", path |-> "/news/1"] }

\* HTTP statuses a server may answer with (status codes as strings, so that
\* the absent status None is comparable with them).
Statuses == {"200", "403", "500"}

\* Page bodies a server may send.
Bodies == {"", "<html>article</html>", "<html>blocked</html>"}

\* The texts of the exceptions a request may raise: str(exc) is empty for
\* an exception raised without a message.
Messages == {"", "timed out"}

\* What the network does to one ladder step: the warm-up request may fail,
\* the main request may raise an exception with the given message, or it
\* answers with a status and a body.  The status None stands for a browser
\* navigation that ends without a response.
NetOutcomes ==
    {net \in [warmupRaised : BOOLEAN, raised : BOOLEAN, message : Messages,
              status : Statuses \cup {None}, text : Bodies] :
        /\ net.raised => net.status = None /\ net.text = "" /\ ~net.warmupRaised
        /\ ~net.raised => net.message = ""}

\* An httpx or curl response always has a status code; page.goto of
\* playwright may return no response.
Answers(k, net) == net.status = None => net.raised \/ k = 4

StepResult(html, status, executed, error) ==
    [html |-> html, status |-> status, executed |-> executed, error |-> error]

build_plan(url) ==
    IF url.host = "tax.gov.ua" \/ url.host = TAX_HOST
    THEN [url |-> [host |-> TAX_HOST, path |-> url.path], domain |-> TAX_HOST, warmup |-> TRUE]
    ELSE [url |-> url, domain |-> url.host, warmup |-> FALSE]

\* _httpx_fetch: a failed warm-up is swallowed; any exception of the main
\* request gives an error result; only status 200 with text yields html.
httpx_fetch(plan, net) ==
    IF net.raised
    THEN StepResult(None, None, TRUE, net.message)
    ELSE IF net.status = "200" /\ net.text # ""
         THEN StepResult(net.text, net.status, TRUE, None)
         ELSE StepResult(None, net.status, TRUE, None)

\* _curl_cffi_fetch: skipped when the engine is absent, otherwise as httpx.
curl_cffi_fetch(plan, has, net) ==
    IF ~has
    THEN StepResult(None, None, FALSE, None)
    ELSE IF net.raised
         THEN StepResult(None, None, TRUE, net.message)
         ELSE IF net.status = "200" /\ net.text # ""
              THEN StepResult(net.text, net.status, TRUE, None)
              ELSE StepResult(None, net.status, TRUE, None)

\* _playwright_fetch: skipped when the engine is absent; an exception gives
\* an error result; otherwise the page content is returned with whatever
\* status the navigation produced (None when goto returned no response).
playwright_fetch(plan, has, net) ==
    IF ~has
    THEN StepResult(None, None, FALSE, None)
    ELSE IF net.raised
         THEN StepResult(None, None, TRUE, net.message)
         ELSE StepResult(net.text, net.status, TRUE, None)

Steps == <<"httpx h2", "httpx h1", "curl_cffi", "playwright">>

\* The factory of ladder step k, awaited.
Factory(k, plan, caps, net) ==
    CASE k = 1 -> httpx_fetch(plan, net)
      [] k = 2 -> httpx_fetch(plan, net)
      [] k = 3 -> curl_cffi_fetch(plan, caps.curl, net)
      [] k = 4 -> playwright_fetch(plan, caps.playwright, net)

\* The engine of ladder step k is installed.
Installed(k, caps) ==
    CASE k = 3 -> caps.curl
      [] k = 4 -> caps.playwright
      [] OTHER -> TRUE

\* The log line the loop writes for a step result.
LogEntry(label, result, net) ==
    [step |-> label,
     kind |-> IF ~result.executed THEN "skipped"
              ELSE IF result.status # None THEN "status"
              ELSE IF result.error \notin {None, ""} THEN "error"
              ELSE "completed",
     status |-> result.status,
     error |-> result.error,
     netStatus |-> IF result.executed /\ ~net.raised THEN net.status ELSE None,
     html |-> result.html,
     gaveHtml |-> result.html # None /\ result.html # ""]

\* staged_fetch_html is called: capabilities are logged, the plan is built.
FetchCall(url) ==
    /\ fPc \in {"idle", "done"}
    /\ fPc' = "running"
    /\ fPlan' = build_plan(url)
    /\ fStep' = 1
    /\ fLog' = <<>>
    /\ fResult' = None
    /\ UNCHANGED <<fCaps, ingestVars, cycleVars, textVars, previewVars, dateVars, botVars>>

\* The loop body with the early return on html removed.
FetchStep_NoEarlyReturn(net) ==
    /\ fPc = "running"
    /\ LET result == Factory(fStep, fPlan, fCaps, net)
       IN /\ fLog' = Append(fLog, LogEntry(Steps[fStep], result, net))
          /\ fResult' = IF fStep = Len(Steps) THEN result.html ELSE None
          /\ fPc' = IF fStep = Len(Steps) THEN "done" ELSE "running"
          /\ fStep' = IF fStep = Len(Steps) THEN fStep ELSE fStep + 1
    /\ UNCHANGED <<fPlan, fCaps, ingestVars, cycleVars, textVars, previewVars, dateVars, botVars>>

\* One iteration of "for label, factory in steps" whose factory returns.
\* After the last iteration without html the function returns None.
FetchStep(net) ==
    /\ fPc = "running"
    /\ LET result == Factory(fStep, fPlan, fCaps, net)
           hit == result.executed /\ result.html # None /\ result.html # ""
       IN /\ fLog' = Append(fLog, LogEntry(Steps[fStep], result, net))
          /\ IF hit
             THEN /\ fResult' = result.html
                  /\ fPc' = "done"
                  /\ fStep' = fStep
             ELSE /\ fResult' = None
                  /\ fPc' = IF fStep = Len(Steps) THEN "done" ELSE "running"
                  /\ fStep' = IF fStep = Len(Steps) THEN fStep ELSE fStep + 1
    /\ UNCHANGED <<fPlan, fCaps, ingestVars, cycleVars, textVars, previewVars, dateVars, botVars>>

\* One iteration whose awaited factory itself raises: logged, then continue.
\* The factory of an engine that is not installed returns at once.
FetchStepRaises ==
    /\ fPc = "running"
    /\ Installed(fStep, fCaps)
    /\ fLog' = Append(fLog, [step |-> Steps[fStep], kind |-> "error", status |-> None,
                             error |-> "wrapper failure", netStatus |-> None,
                             html |-> None, gaveHtml |-> FALSE])
    /\ fResult' = None
    /\ fPc' = IF fStep = Len(Steps) THEN "done" ELSE "running"
    /\ fStep' = IF fStep = Len(Steps) THEN fStep ELSE fStep + 1
    /\ UNCHANGED <<fPlan, fCaps, ingestVars, cycleVars, textVars, previewVars, dateVars, botVars>>

\* The fetch ladder at rest.
FetchIdle ==
    /\ fPc = "idle"
    /\ fPlan = build_plan([host |-> "bank.gov.ua", path |-> "/news/1"])
    /\ fStep = 1
    /\ fLog = <<>>
    /\ fResult = None

FetchNext ==
    \/ \E url \in FetchUrls : FetchCall(url)
    \/ \E net \in NetOutcomes : Answers(fStep, net) /\ FetchStep(net)
    \/ FetchStepRaises

(***************************************************************************)
(* jobs/staged_fetch.py : _playwright_fetch, await by await                *)
(*                                                                         *)
(* Every await of the coroutine may complete, raise an exception, or be    *)
(* the point at which the cancellation of the enclosing task is delivered  *)
(* (CancelledError, which "except Exception" does not catch); a task is    *)
(* cancelled at most once.  Leaving "async with async_playwright()" stops  *)
(* the playwright driver, which closes every browser it still holds.       *)
(***************************************************************************)

AwaitOutcomes == {"ok", "raises", "cancelled"}

\* The awaits inside the try whose finally closes context and browser.
InnerTry == {"goto", "wait", "content"}

\* The awaits of the warm-up inside "try: ... except Exception: pass".
WarmupTry == {"warmup_goto", "warmup_wait"}

BrowserIdle ==
    /\ bPc = "idle"
    /\ bPlan = build_plan([host |-> "bank.gov.ua", path |-> "/news/1"])
    /\ bDriver = "none"
    /\ bBrowser = "none"
    /\ bContext = "none"
    /\ bPages = 0
    /\ bExc = "none"
    /\ bResult = StepResult(None, None, FALSE, None)
    /\ bEnd = ""
    /\ bLog = <<>>

\* _playwright_fetch(plan) is called: without the engine it returns at once.
PwCall(url, has) ==
    /\ bPc = "idle"
    /\ bPlan' = build_plan(url)
    /\ bPc' = IF has THEN "enter" ELSE "done"
    /\ bEnd' = IF has THEN "" ELSE "returned"
    /\ bLog' = <<>>
    /\ UNCHANGED <<bDriver, bBrowser, bContext, bPages, bExc, bResult, coreVars, modVars, raceVars>>

\* An await at bPc raises or is cancelled: the exception leaves the warm-up
\* try swallowed if it is an Exception, reaches the finally from the inner
\* try, and otherwise leaves the "async with".
PwFails(o) ==
    /\ bLog' = Append(bLog, <<bPc, o>>)
    /\ IF bPc \in WarmupTry /\ o = "raises"
       THEN /\ bPc' = "warmup_close"
            /\ UNCHANGED bExc
       ELSE /\ bPc' = IF bPc \in InnerTry THEN "context_close" ELSE "exit"
            /\ bExc' = IF o = "raises" THEN "error" ELSE "cancelled"

\* The outcomes an await may have: a task is cancelled at most once.
MayEnd(o) == o = "cancelled" => \A k \in 1..Len(bLog) : bLog[k][2] # "cancelled"

\* async with async_playwright() as p
PwEnter(o) ==
    /\ bPc = "enter"
    /\ MayEnd(o)
    /\ IF o = "ok"
       THEN /\ bDriver' = "running"
            /\ bPc' = "launch"
            /\ bLog' = Append(bLog, <<bPc, o>>)
            /\ UNCHANGED bExc
       ELSE /\ PwFails(o)
            /\ UNCHANGED bDriver
    /\ UNCHANGED <<bPlan, bBrowser, bContext, bPages, bResult, bEnd, coreVars, modVars, raceVars>>

\* browser = await p.chromium.launch(headless=True)
PwLaunch(o) ==
    /\ bPc = "launch"
    /\ MayEnd(o)
    /\ IF o = "ok"
       THEN /\ bBrowser' = "open"
            /\ bPc' = "new_context"
            /\ bLog' = Append(bLog, <<bPc, o>>)
            /\ UNCHANGED bExc
       ELSE /\ PwFails(o)
            /\ UNCHANGED bBrowser
    /\ UNCHANGED <<bPlan, bDriver, bContext, bPages, bResult, bEnd, coreVars, modVars, raceVars>>

\* context = await browser.new_context(...)
PwNewContext(o) ==
    /\ bPc = "new_context"
    /\ MayEnd(o)
    /\ IF o = "ok"
       THEN /\ bContext' = "open"
            /\ bPc' = IF bPlan.warmup THEN "warmup_page" ELSE "new_page"
            /\ bLog' = Append(bLog, <<bPc, o>>)
            /\ UNCHANGED bExc
       ELSE /\ PwFails(o)
            /\ UNCHANGED bContext
    /\ UNCHANGED <<bPlan, bDriver, bBrowser, bPages, bResult, bEnd, coreVars, modVars, raceVars>>

\* page = await context.new_page(), for the warm-up and for the article.
PwNewPage(o) ==
    /\ bPc \in {"warmup_page", "new_page"}
    /\ MayEnd(o)
    /\ IF o = "ok"
       THEN /\ bPages' = bPages + 1
            /\ bPc' = IF bPc = "warmup_page" THEN "warmup_goto" ELSE "goto"
            /\ bLog' = Append(bLog, <<bPc, o>>)
            /\ UNCHANGED bExc
       ELSE /\ PwFails(o)
            /\ UNCHANGED bPages
    /\ UNCHANGED <<bPlan, bDriver, bBrowser, bContext, bResult, bEnd, coreVars, modVars, raceVars>>

\* The warm-up: page.goto(plan.warmup_url), page.wait_for_timeout(2000),
\* then await page.close() outside the try.
PwWarmup(o) ==
    /\ bPc \in WarmupTry \cup {"warmup_close"}
    /\ MayEnd(o)
    /\ IF o = "ok"
       THEN /\ bPc' = CASE bPc = "warmup_goto" -> "warmup_wait"
                        [] bPc = "warmup_wait" -> "warmup_close"
                        [] bPc = "warmup_close" -> "new_page"
            /\ bPages' = IF bPc = "warmup_close" THEN bPages - 1 ELSE bPages
            /\ bLog' = Append(bLog, <<bPc, o>>)
            /\ UNCHANGED bExc
       ELSE /\ PwFails(o)
            /\ UNCHANGED bPages
    /\ UNCHANGED <<bPlan, bDriver, bBrowser, bContext, bResult, bEnd, coreVars, modVars, raceVars>>

\* The status of the response of page.goto (None: no response) and the
\* content of the page.
NavStatuses == {"200", "403", None}
NavContents == {"", "<html>article</html>"}

\* response = await page.goto(plan.url, ...); await page.wait_for_timeout(2000);
\* status = response.status if response is not None else None;
\* content = await page.content()
PwNavigate(o, status, text) ==
    /\ bPc \in InnerTry
    /\ MayEnd(o)
    /\ (o # "ok" \/ bPc # "goto") => status = None
    /\ (o # "ok" \/ bPc # "content") => text = ""
    /\ IF o = "ok"
       THEN /\ bPc' = CASE bPc = "goto" -> "wait"
                        [] bPc = "wait" -> "content"
                        [] bPc = "content" -> "context_close"
            /\ bResult' = CASE bPc = "goto" -> [bResult EXCEPT !.status = status]
                            [] bPc = "wait" -> bResult
                            [] bPc = "content" -> [bResult EXCEPT !.html = text]
            /\ bLog' = Append(bLog, <<bPc, o>>)
            /\ UNCHANGED bExc
       ELSE /\ PwFails(o)
            /\ UNCHANGED bResult
    /\ UNCHANGED <<bPlan, bDriver, bBrowser, bContext, bPages, bEnd, coreVars, modVars, raceVars>>

\* finally: await context.close(); await browser.close().  An exception
\* of context.close() leaves the finally before browser.close().
PwFinally(o) ==
    /\ bPc \in {"context_close", "browser_close"}
    /\ MayEnd(o)
    /\ IF o = "ok"
       THEN /\ bContext' = "closed"
            /\ bPages' = 0
            /\ bBrowser' = IF bPc = "browser_close" THEN "closed" ELSE bBrowser
            /\ bPc' = IF bPc = "context_close" THEN "browser_close" ELSE "exit"
            /\ bLog' = Append(bLog, <<bPc, o>>)
            /\ UNCHANGED bExc
       ELSE /\ PwFails(o)
            /\ UNCHANGED <<bContext, bPages, bBrowser>>
    /\ UNCHANGED <<bPlan, bDriver, bResult, bEnd, coreVars, modVars, raceVars>>

\* Leaving the "async with" without the driver having been stopped first.
PwExit_DriverLeftRunning ==
    /\ bPc = "exit"
    /\ bPc' = "done"
    /\ bEnd' = IF bExc = "cancelled" THEN "cancelled" ELSE "returned"
    /\ bResult' = CASE bExc = "none" -> [bResult EXCEPT !.executed = TRUE]
                    [] bExc = "error" -> StepResult(None, None, TRUE, "error")
                    [] bExc = "cancelled" -> StepResult(None, None, FALSE, None)
    /\ bLog' = Append(bLog, <<bPc, "ok">>)
    /\ UNCHANGED <<bPlan, bDriver, bBrowser, bContext, bPages, bExc, coreVars, modVars, raceVars>>

\* The "async with" is left: the driver stops and takes the browser it
\* still holds with it.  Then "except Exception" makes an error result of
\* an exception, a cancellation goes on to the caller, and without either
\* the content is returned.
PwExit ==
    /\ bPc = "exit"
    /\ bPc' = "done"
    /\ bDriver' = IF bDriver = "running" THEN "stopped" ELSE bDriver
    /\ bBrowser' = IF bBrowser = "open" THEN "closed" ELSE bBrowser
    /\ bContext' = IF bContext = "open" THEN "closed" ELSE bContext
    /\ bPages' = 0
    /\ bEnd' = IF bExc = "cancelled" THEN "cancelled" ELSE "returned"
    /\ bResult' = CASE bExc = "none" -> [bResult EXCEPT !.executed = TRUE]
                    [] bExc = "error" -> StepResult(None, None, TRUE, "error")
                    [] bExc = "cancelled" -> StepResult(None, None, FALSE, None)
    /\ bLog' = Append(bLog, <<bPc, "ok">>)
    /\ UNCHANGED <<bPlan, bExc, coreVars, modVars, raceVars>>

BrowserNext ==
    \/ \E url \in FetchUrls, has \in BOOLEAN : PwCall(url, has)
    \/ \E o \in AwaitOutcomes : PwEnter(o)
    \/ \E o \in AwaitOutcomes : PwLaunch(o)
    \/ \E o \in AwaitOutcomes : PwNewContext(o)
    \/ \E o \in AwaitOutcomes : PwNewPage(o)
    \/ \E o \in AwaitOutcomes : PwWarmup(o)
    \/ \E o \in AwaitOutcomes, status \in NavStatuses, text \in NavContents :
           PwNavigate(o, status, text)
    \/ \E o \in AwaitOutcomes : PwFinally(o)
    \/ PwExit

(***************************************************************************)
(* String helpers (Python str methods used on hosts and paths)             *)
(***************************************************************************)

StartsWith(s, p) == Len(s) >= Len(p) /\ SubSeq(s, 1, Len(p)) = p

EndsWith(s, p) == Len(s) >= Len(p) /\ SubSeq(s, Len(s) - Len(p) + 1, Len(s)) = p

Contains(s, p) == \E i \in 1..(Len(s) - Len(p) + 1) : SubSeq(s, i, i + Len(p) - 1) = p

Digits == {"0", "1", "2", "3", "4", "5", "6", "7", "8", "9"}

\* s.rstrip(c) for a one-character c.
RECURSIVE RStripChar(_, _)
RStripChar(s, c) ==
    IF Len(s) > 0 /\ SubSeq(s, Len(s), Len(s)) = c
    THEN RStripChar(SubSeq(s, 1, Len(s) - 1), c)
    ELSE s

\* s.rsplit(c, 1)[-1]: the part after the last c (all of s without c).
AfterLast(s, c) ==
    LET at == {i \in 1..Len(s) : SubSeq(s, i, i) = c}
    IN IF at = {} THEN s
       ELSE LET last == CHOOSE i \in at : \A j \in at : j <= i
            IN SubSeq(s, last + 1, Len(s))

(***************************************************************************)
(* Text: Python str operations used by the extractors and the renderer     *)
(***************************************************************************)

Min(a, b) == IF a < b THEN a ELSE b

Max(a, b) == IF a > b THEN a ELSE b

\* s[i] as a one-character string (1-based).
ch(s, i) == SubSeq(s, i, i)

\* s[:n]
Slice(s, n) == SubSeq(s, 1, Min(n, Len(s)))

\* str.isspace for the characters of the model.
Whitespace == {" ", "\t", "\n", "\r"}

UpperCase ==
    {"A", "B", "C", "D", "E", "F", "G", "H", "I", "J", "K", "L", "M", "N", "O", "P", "Q",
     "R", "S", "T", "U", "V", "W", "X", "Y", "Z"}

LowerCase ==
    {"a", "b", "c", "d", "e", "f", "g", "h", "i", "j", "k", "l", "m", "n", "o", "p", "q",
     "r", "s", "t", "u", "v", "w", "x", "y", "z"}

LowerOf ==
    [c \in UpperCase |->
        CASE c = "A" -> "a" [] c = "B" -> "b" [] c = "C" -> "c" [] c = "D" -> "d"
          [] c = "E" -> "e" [] c = "F" -> "f" [] c = "G" -> "g" [] c = "H" -> "h"
          [] c = "I" -> "i" [] c = "J" -> "j" [] c = "K" -> "k" [] c = "L" -> "l"
          [] c = "M" -> "m" [] c = "N" -> "n" [] c = "O" -> "o" [] c = "P" -> "p"
          [] c = "Q" -> "q" [] c = "R" -> "r" [] c = "S" -> "s" [] c = "T" -> "t"
          [] c = "U" -> "u" [] c = "V" -> "v" [] c = "W" -> "w" [] c = "X" -> "x"
          [] c = "Y" -> "y" [] c = "Z" -> "z"]

\* The characters \w matches.
WordChars == UpperCase \cup LowerCase \cup Digits \cup {"_"}

\* The integers a..b as a sequence.
Range(a, b) == [k \in 1..(b - a + 1) |-> a + k - 1]

\* sep.join(parts): the parts are joined half by half.
RECURSIVE JoinRange(_, _, _, _)
JoinRange(parts, sep, lo, hi) ==
    IF lo > hi THEN ""
    ELSE IF lo = hi THEN parts[lo]
    ELSE JoinRange(parts, sep, lo, (lo + hi) \div 2) \o sep
         \o JoinRange(parts, sep, (lo + hi) \div 2 + 1, hi)

JoinWith(parts, sep) == JoinRange(parts, sep, 1, Len(parts))

\* The indices of the characters of s that are in S, in order.
Marks(s, S) == SelectSeq(Range(1, Len(s)), LAMBDA i : ch(s, i) \in S)

\* s with every character that is in S replaced by what F gives for it: the
\* stretches between the marks m, each with the replacement that follows it.
Pieces(s, m, F(_)) ==
    [k \in 1..(Len(m) + 1) |->
        IF k <= Len(m)
        THEN SubSeq(s, (IF k = 1 THEN 1 ELSE m[k - 1] + 1), m[k] - 1) \o F(ch(s, m[k]))
        ELSE SubSeq(s, (IF k = 1 THEN 1 ELSE m[k - 1] + 1), Len(s))]

Substitute(s, S, F(_)) ==
    IF \A i \in 1..Len(s) : ch(s, i) \notin S THEN s
    ELSE JoinWith(Pieces(s, Marks(s, S), F), "")

\* str.lower()
Lower(s) == Substitute(s, UpperCase, LAMBDA c : LowerOf[c])

\* s.strip()
Strip(s) ==
    IF \A i \in 1..Len(s) : ch(s, i) \in Whitespace THEN ""
    ELSE LET a == CHOOSE i \in 1..Len(s) :
                      /\ ch(s, i) \notin Whitespace
                      /\ \A j \in 1..(i - 1) : ch(s, j) \in Whitespace
             k == CHOOSE k \in 0..(Len(s) - 1) :
                      /\ ch(s, Len(s) - k) \notin Whitespace
                      /\ \A j \in (Len(s) - k + 1)..Len(s) : ch(s, j) \in Whitespace
         IN SubSeq(s, a, Len(s) - k)

\* The index at which the last occurrence of p in s starts, 0 when there is
\* none (s.rfind(p) + 1).
RFind(s, p) ==
    IF ~Contains(s, p) THEN 0
    ELSE LET n == Len(s) - Len(p) + 1
             k == CHOOSE k \in 0..(n - 1) :
                      /\ SubSeq(s, n - k, n - k + Len(p) - 1) = p
                      /\ \A j \in (n - k + 1)..n : SubSeq(s, j, j + Len(p) - 1) # p
         IN n - k

\* The index at which the first occurrence of p in s starts, 0 when there
\* is none (s.find(p) + 1).
Find(s, p) ==
    IF ~Contains(s, p) THEN 0
    ELSE CHOOSE i \in 1..(Len(s) - Len(p) + 1) :
             /\ SubSeq(s, i, i + Len(p) - 1) = p
             /\ \A j \in 1..(i - 1) : SubSeq(s, j, j + Len(p) - 1) # p

\* s.split(): the maximal runs of characters that are not whitespace, each
\* from the index at which it starts to the index at which it ends.
TokenStarts(s) ==
    SelectSeq(Range(1, Len(s)),
              LAMBDA i : ch(s, i) \notin Whitespace /\ (i = 1 \/ ch(s, i - 1) \in Whitespace))

TokenEnds(s) ==
    SelectSeq(Range(1, Len(s)),
              LAMBDA i : ch(s, i) \notin Whitespace
                             /\ (i = Len(s) \/ ch(s, i + 1) \in Whitespace))

Tokens(s, starts, ends) == [k \in 1..Len(starts) |-> SubSeq(s, starts[k], ends[k])]

split(s) == Tokens(s, TokenStarts(s), TokenEnds(s))

\* " ".join(text.split()): runs of whitespace become one space, none is
\* left at either end.
normalize_spaces(text) ==
    IF \A i \in 1..Len(text) :
           ch(text, i) \in Whitespace =>
               /\ ch(text, i) = " "
               /\ 1 < i /\ i < Len(text)
               /\ ch(text, i + 1) \notin Whitespace
    THEN text
    ELSE JoinWith(split(text), " ")

\* The string of n copies of unit.
RECURSIVE Rep(_, _)
Rep(unit, n) ==
    IF n <= 0 THEN ""
    ELSE IF n = 1 THEN unit
    ELSE LET half == Rep(unit, n \div 2)
         IN IF n % 2 = 0 THEN half \o half ELSE half \o half \o unit

\* re.findall(r"[\w]{minLen,}", text)[:limit]: the first maximal runs of
\* word characters of at least minLen characters.
\* The scan keeps the index at which the current run started (0 outside a
\* run) and goes through s[lo..hi] half by half.
WordsStep(st, s, i, minLen) ==
    IF ch(s, i) \in WordChars
    THEN IF st.start = 0 THEN [st EXCEPT !.start = i] ELSE st
    ELSE IF st.start > 0 /\ i - st.start >= minLen
    THEN [words |-> Append(st.words, SubSeq(s, st.start, i - 1)), start |-> 0]
    ELSE [st EXCEPT !.start = 0]

RECURSIVE WordsScan(_, _, _, _, _, _)
WordsScan(s, lo, hi, st, minLen, limit) ==
    IF lo > hi \/ Len(st.words) >= limit THEN st
    ELSE IF lo = hi THEN WordsStep(st, s, lo, minLen)
    ELSE WordsScan(s, (lo + hi) \div 2 + 1, hi,
                   WordsScan(s, lo, (lo + hi) \div 2, st, minLen, limit),
                   minLen, limit)

FirstWords(text, minLen, limit) ==
    LET st == WordsScan(text, 1, Len(text), [words |-> <<>>, start |-> 0], minLen, limit)
    IN IF Len(st.words) < limit /\ st.start > 0 /\ Len(text) + 1 - st.start >= minLen
       THEN Append(st.words, SubSeq(text, st.start, Len(text))) ELSE st.words

\* The stretches of s between the marks m.
Between(s, m) ==
    [k \in 1..(Len(m) + 1) |->
        SubSeq(s, (IF k = 1 THEN 1 ELSE m[k - 1] + 1), (IF k <= Len(m) THEN m[k] - 1 ELSE Len(s)))]

\* s.splitlines() for texts whose line boundaries are "\n": a line break at
\* the end of the text starts no line.
splitlines(text) ==
    IF text = "" THEN <<>>
    ELSE IF EndsWith(text, "\n")
    THEN Between(SubSeq(text, 1, Len(text) - 1), Marks(SubSeq(text, 1, Len(text) - 1), {"\n"}))
    ELSE Between(text, Marks(text, {"\n"}))

(***************************************************************************)
(* services/tax_urls.py, jobs/fetch.py : URL handling                      *)
(*                                                                         *)
(* A URL is a record: host (netloc, lower case), path, and the host and    *)
(* path of the address carried in its "url" query parameter (empty when    *)
(* it has none).  NoUrl stands for Python's None.                          *)
(***************************************************************************)

Url(host, path) == [host |-> host, path |-> path, thost |-> "", tpath |-> ""]

Wrapped(host, path, target) ==
    [host |-> host, path |-> path, thost |-> target.host, tpath |-> target.path]

NoUrl == Url("", "")

TAX_NEWS_PATH_PREFIX == "/media-tsentr/novini/"

\* _TAX_ID_RE.search(slug): the first run of at least four digits, taken
\* greedily; "" when there is none.
TaxIdSearch(slug) ==
    LET starts == {i \in 1..(Len(slug) - 3) :
                      \A k \in 0..3 : SubSeq(slug, i + k, i + k) \in Digits}
    IN IF starts = {} THEN ""
       ELSE LET b == CHOOSE i \in starts : \A j \in starts : i <= j
                e == CHOOSE j \in b..Len(slug) :
                        /\ \A k \in b..j : SubSeq(slug, k, k) \in Digits
                        /\ (j = Len(slug) \/ SubSeq(slug, j + 1, j + 1) \notin Digits)
            IN SubSeq(slug, b, e)

\* tax_print_url: the print-friendly address of a DPS news article.
tax_print_url(url) ==
    IF ~Contains(url.host, "tax.gov.ua") THEN NoUrl
    ELSE IF ~StartsWith(url.path, TAX_NEWS_PATH_PREFIX) THEN NoUrl
    ELSE IF Contains(url.path, "print-")
         THEN LET np == RStripChar(url.path, "/")
              IN Url(url.host, IF EndsWith(np, ".html") THEN np ELSE np \o ".html")
         ELSE LET slug == AfterLast(RStripChar(url.path, "/"), "/")
                  id == TaxIdSearch(slug)
              IN IF id = "" THEN NoUrl
                 ELSE Url(url.host, TAX_NEWS_PATH_PREFIX \o "print-" \o id \o ".html")

\* _normalize_url: unwrap Google News redirects, then map DPS news
\* addresses to the value of tax_print_url.
normalize_url(url) ==
    IF EndsWith(url.host, "news.google.com") /\ url.thost # ""
    THEN Url(url.thost, url.tpath)
    ELSE IF tax_print_url(url) # NoUrl THEN tax_print_url(url)
    ELSE url

\* _domain
domain(url) == url.host

\* settings.whitelist_level1
WHITELIST_LEVEL1 ==
    { "oecd.org", "europa.eu", "eur-lex.europa.eu", "zakon.rada.gov.ua", "bank.gov.ua",
      "diia.gov.ua", "tax.gov.ua", "minfin.gov.ua", "minjust.gov.ua",
      "reyestr.court.gov.ua", "curia.europa.eu", "irs.gov", "gov.uk", "hmrc.gov.uk",
      "bundesfinanzministerium.de", "agenziaentrate.gov.it", "tax.gov.ae", "cbu.ae",
      "ec.europa.eu" }

\* _in_whitelist_lvl1
in_whitelist_lvl1(dom) == \E d \in WHITELIST_LEVEL1 : EndsWith(dom, d)

(***************************************************************************)
(* jobs/fetch.py : ingest_one                                              *)
(***************************************************************************)

TaxArticle == Url("tax.gov.ua", "/media-tsentr/novini/900123.html")
TaxPrint == Url("tax.gov.ua", "/media-tsentr/novini/print-900123.html")
TaxNotice == Url("tax.gov.ua", "/baneryi/anonsi/900456.html")
BankArticle == Url("bank.gov.ua", "/ua/news/all/oblikova-stavka")
OecdArticle == Url("www.oecd.org", "/tax/beps")
BlogArticle == Url("example.com", "/post/1")
\* A host that ends with the characters of the entry oecd.org and is no
\* subdomain of it.
LookalikeArticle == Url("notoecd.org", "/tax/beps")

\* Addresses the feed sources hand to ingest_one.
ItemUrls ==
    { TaxArticle, TaxPrint, TaxNotice, BankArticle, OecdArticle, BlogArticle, LookalikeArticle,
      Wrapped("news.google.com", "/rss/articles/1", BankArticle),
      Wrapped("news.google.com", "/rss/articles/2", TaxArticle),
      Wrapped("news.google.com", "/rss/articles/3", BlogArticle) }

\* What a fetched page yields to the functions ingest_one hands it to: the
\* content of its meta description, the text extract_article_text returns,
\* the text of the NBU extractors (extract_nbu_body, else
\* extract_body_fallback_generic) and whether is_reliable_nbu_body accepts
\* it, the image addresses extract_image meets in its order of search, and
\* an address only a background-image style or an anchor carries.  "" is an
\* absent text.  NoPage: the fetch gave None.
PageOf(meta, article, nbu, reliable, images, other) ==
    [none |-> FALSE, meta |-> meta, article |-> article, nbu |-> nbu,
     reliable |-> reliable, images |-> images, other |-> other]

PreviewImage == "/files/preview/900123.jpg"
FullImage == "/files/900123.jpg"
AnchorImage == "/files/scan-900123.png"

\* Pages served at an article address.
Pages ==
    { PageOf("", "Body of the article.", "Body of the bank notice.", TRUE,
             <<PreviewImage>>, ""),
      PageOf(" Meta  description\nof the page ", "", "Short", FALSE,
             <<PreviewImage, FullImage>>, ""),
      PageOf("", "", "", FALSE, <<>>, AnchorImage) }

\* Pages served at a print address.
PrintPages ==
    { PageOf("", "Body of the print version.", "", FALSE, <<>>, ""),
      PageOf("", "", "", FALSE, <<>>, "") }

NoPage == [none |-> TRUE, meta |-> "", article |-> "", nbu |-> "", reliable |-> FALSE,
           images |-> <<>>, other |-> ""]

\* What the world does to one ingest_one call past the duplicate check: the
\* page it serves at an article address and at a print address, and whether
\* extraction raises.
FetchWorlds ==
    [page : Pages \cup {NoPage}, print : PrintPages \cup {NoPage}, raises : BOOLEAN]

\* staged_fetch_html(url), _fetch_html(url): the page the world serves there.
fetch_html(w, url) == IF Contains(url.path, "print-") THEN w.print ELSE w.page

(***************************************************************************)
(* services/summary.py, services/image_extract.py                          *)
(***************************************************************************)

\* The lines that are not blank, each as " ".join(stripped.split()), joined:
\* by a space after the line before, by an empty line after a blank line.
join_paragraphs(norm, kept) ==
    JoinWith([k \in 1..Len(kept) |->
                 (IF k = 1 THEN ""
                  ELSE IF kept[k] = kept[k - 1] + 1 THEN " " ELSE "\n\n") \o norm[kept[k]]],
             "")

normalized_lines(lines) ==
    SubSeq([k \in 1..Len(lines) |-> normalize_spaces(lines[k])], 1, Len(lines))

paragraphs_of(norm) ==
    join_paragraphs(norm, SelectSeq(Range(1, Len(norm)), LAMBDA k : norm[k] # ""))

\* _normalize_paragraphs: the lines of a paragraph are joined by a space,
\* runs of whitespace inside a line become one space, paragraphs (lines
\* between blank lines) are joined by an empty line.  (The texts of the
\* model hold no non-breaking space for _normalize_space_chars to replace.)
normalize_paragraphs(text) == paragraphs_of(normalized_lines(splitlines(text)))

\* normalized or None
or_none(text) == IF text = "" THEN None ELSE text

\* normalize_text leaving the text as it is.
normalize_text_unchanged(value) == IF value \in {None, ""} THEN None ELSE value

\* normalize_text
normalize_text(value) ==
    IF value \in {None, ""} THEN None ELSE or_none(normalize_paragraphs(value))

\* meta_description on the abstract page.
meta_description(page) == normalize_text(Strip(page.meta))

\* choose_summary from line 93 on: the meta description unless it repeats
\* the title, else the article text.
choose_fallback(title_norm, summary_norm, fallback, page) ==
    IF fallback # None /\ (title_norm = None \/ Lower(fallback) # Lower(title_norm))
    THEN fallback
    ELSE IF page.article # "" THEN page.article
    ELSE summary_norm

\* choose_summary from line 87 on.
choose_given(title_norm, summary_norm, page) ==
    IF summary_norm # None THEN summary_norm
    ELSE IF page = NoPage THEN summary_norm
    ELSE choose_fallback(title_norm, summary_norm, meta_description(page), page)

\* choose_summary from line 84 on: a summary that repeats the title is dropped.
choose_normalized(title_norm, given, page) ==
    choose_given(title_norm,
                 IF given # None /\ title_norm # None /\ Lower(given) = Lower(title_norm)
                 THEN None ELSE given,
                 page)

\* choose_summary(title, provided, html_text) on the abstract page.
choose_summary(title, provided, page) ==
    choose_normalized(normalize_text(title), normalize_text(provided), page)

\* extract_image(html, base_url): the first address met, joined to base_url.
extract_image(page, base_url) ==
    IF page.images = <<>> THEN NoUrl ELSE Url(base_url.host, page.images[1])

\* The body of ingest_one without the except clause: the exception reaches the caller.
Guarded_NoExcept(outcome) == outcome

\* The try/except around the body of ingest_one: an exception becomes the
\* verdict "error".
Guarded(outcome) == IF outcome = "raised" THEN "error" ELSE outcome

Verdicts ==
    {"created", "duplicate", "skipped_level1", "skipped_no_body", "error",
     "skipped_no_date", "skipped_old"}

\* choose_summary was not called.
NotHanded == "not handed"

NoCall ==
    [url |-> NoUrl, normalized_url |-> NoUrl, title |-> "", summary |-> "",
     session |-> FALSE, fetched |-> <<>>, served |-> <<>>, provided |-> NotHanded,
     summary_html |-> NoPage, image_html |-> NoPage, image_base |-> NoUrl,
     image_url |-> NoUrl, summary_text |-> None, faulted |-> FALSE]

\* The position of run_ingest_cycle after the item at pos, whose processing
\* ended with the given outcome: the next item, or, if an exception came
\* out of ingest_one, the next source (the source's except clause) or the
\* end of the cycle (the Google News section has no except clause).
RECURSIVE SkipEmpty(_, _)
SkipEmpty(batch, pos) ==
    IF pos[1] > Len(batch) THEN pos
    ELSE IF pos[2] > Len(batch[pos[1]].items) THEN SkipEmpty(batch, <<pos[1] + 1, 1>>)
    ELSE pos

CycleAfter(batch, pos, outcome) ==
    IF outcome = "raised"
    THEN IF batch[pos[1]].kind = "google" THEN <<Len(batch) + 1, 0>>
         ELSE SkipEmpty(batch, <<pos[1] + 1, 1>>)
    ELSE SkipEmpty(batch, <<pos[1], pos[2] + 1>>)

\* ingest_one returns (or raises) to its caller; inside run_ingest_cycle
\* the caller counts the verdict and moves on.
Return(call, outcome, rows) ==
    /\ iPc' = "idle"
    /\ iCall' = NoCall
    /\ iHist' = Append(iHist, [url |-> call.url, normalized_url |-> call.normalized_url,
                               result |-> outcome, session |-> call.session,
                               fetched |-> call.fetched, faulted |-> call.faulted,
                               added |-> Cardinality(rows \ articles),
                               summary |-> call.summary, served |-> call.served,
                               provided |-> call.provided,
                               summary_html |-> call.summary_html,
                               image_html |-> call.image_html,
                               image_base |-> call.image_base,
                               image_url |-> call.image_url,
                               summary_text |-> call.summary_text,
                               stored |-> rows \ articles])
    /\ articles' = rows
    /\ IF cPc = "running"
       THEN LET next == CycleAfter(cBatch, cPos, outcome)
            IN /\ cPos' = next
               /\ cResults' = IF outcome = "raised" THEN cResults
                              ELSE [cResults EXCEPT ![outcome] = @ + 1]
               /\ cPc' = IF next = <<Len(cBatch) + 1, 0>> THEN "aborted"
                         ELSE IF next[1] > Len(cBatch) THEN "done" ELSE "running"
               /\ UNCHANGED cBatch
       ELSE UNCHANGED cycleVars

\* ingest_one with the whitelist check not returning early.
IngestBegin_NoEarlyReturn(item) ==
    /\ iPc = "idle"
    /\ iPc' = "lookup"
    /\ iCall' = [NoCall EXCEPT !.url = item.url, !.normalized_url = normalize_url(item.url),
                               !.title = item.title, !.summary = item.summary]
    /\ UNCHANGED <<articles, iHist, cycleVars, fetchVars, textVars, previewVars, dateVars, botVars>>

\* ingest_one up to its first await: normalization and the whitelist check.
IngestBegin(item) ==
    /\ iPc = "idle"
    /\ LET normalized_url == normalize_url(item.url)
           dom == domain(normalized_url)
           call == [NoCall EXCEPT !.url = item.url, !.normalized_url = normalized_url,
                                  !.title = item.title, !.summary = item.summary]
       IN IF ~in_whitelist_lvl1(dom)
          THEN Return(call, "skipped_level1", articles)
          ELSE /\ iPc' = "lookup"
               /\ iCall' = call
               /\ UNCHANGED <<articles, iHist, cycleVars>>
    /\ UNCHANGED <<fetchVars, textVars, previewVars, dateVars, botVars>>

\* The duplicate lookup looking for the address as given only.
Candidates_OriginalOnly(call) == {call.url}

\* candidates = tuple({normalized_url, url})
Candidates(call) == {call.normalized_url, call.url}

\* The session is opened and the duplicate lookup runs; db = "raise" is a
\* database failure.  scalar_one_or_none raises on more than one row.
IngestLookup(db) ==
    /\ iPc = "lookup"
    /\ LET exists == {a \in articles : a.url \in Candidates(iCall)}
           call == [iCall EXCEPT !.session = TRUE,
                                 !.faulted = (db = "raise" \/ Cardinality(exists) > 1)]
       IN IF db = "raise" \/ Cardinality(exists) > 1
          THEN Return(call, Guarded("raised"), articles)
          ELSE IF exists # {}
          THEN Return(call, "duplicate", articles)
          ELSE /\ iPc' = "fetch"
               /\ iCall' = call
               /\ UNCHANGED <<articles, iHist, cycleVars>>
    /\ UNCHANGED <<fetchVars, textVars, previewVars, dateVars, botVars>>

\* The result of _fetch_tax_article_htmls, with the addresses requested in
\* order and the pages they gave.
TaxHtmls(fetched, served, primary_html, print_html, print_url) ==
    [fetched |-> fetched, served |-> served, primary_html |-> primary_html,
     print_html |-> print_html, print_url |-> print_url]

tax_htmls(w, url, primary_html, print_url) ==
    IF print_url = NoUrl THEN TaxHtmls(<<url>>, <<primary_html>>, primary_html, NoPage, NoUrl)
    ELSE IF print_url = url
    THEN TaxHtmls(<<url>>, <<primary_html>>, primary_html, primary_html, print_url)
    ELSE TaxHtmls(<<url, print_url>>, <<primary_html, fetch_html(w, print_url)>>,
                  primary_html, fetch_html(w, print_url), print_url)

\* _fetch_tax_article_htmls(url)
fetch_tax_article_htmls(w, url) == tax_htmls(w, url, fetch_html(w, url), tax_print_url(url))

\* a or b, for pages.
OrPage(a, b) == IF a # NoPage THEN a ELSE b

\* Lines 300-304: image_url = extract_image(image_source_html, base_url).
Sources(fetched, served, html, html_for_summary, image_base) ==
    [fetched |-> fetched, served |-> served, html |-> html,
     html_for_summary |-> html_for_summary, image_source_html |-> html,
     image_base |-> IF html # NoPage THEN image_base ELSE NoUrl,
     image_url |-> IF html # NoPage THEN extract_image(html, image_base) ELSE NoUrl]

\* Lines 284-288 and 303: parser_source_url or normalized_url or url.
image_base_url(html, html_for_summary, summary_source_url, url, normalized_url) ==
    IF html_for_summary # NoPage THEN summary_source_url
    ELSE IF html # NoPage \/ normalized_url # NoUrl THEN normalized_url
    ELSE url

\* Lines 265-272 for the pages of a tax.gov.ua item.
tax_sources(tax, html, html_for_summary, url, normalized_url) ==
    Sources(tax.fetched, tax.served, html, html_for_summary,
            image_base_url(html, html_for_summary,
                           (IF html_for_summary # NoPage /\ html_for_summary = tax.print_html
                               /\ tax.print_url # NoUrl
                            THEN tax.print_url ELSE normalized_url),
                           url, normalized_url))

tax_pages(tax, url, normalized_url) ==
    tax_sources(tax, OrPage(tax.primary_html, tax.print_html),
                OrPage(tax.print_html, tax.primary_html), url, normalized_url)

\* Lines 278-282 for the page of another domain.
plain_pages(html, url, normalized_url) ==
    Sources(<<normalized_url>>, <<html>>, html, html,
            image_base_url(html, html, normalized_url, url, normalized_url))

\* Lines 262-304: the pages fetched for normalized_url, the page the summary
\* and the page the image are taken from, and the image address.
ingest_pages(w, url, normalized_url) ==
    IF EndsWith(domain(normalized_url), "tax.gov.ua")
    THEN tax_pages(fetch_tax_article_htmls(w, normalized_url), url, normalized_url)
    ELSE plain_pages(fetch_html(w, normalized_url), url, normalized_url)

\* Lines 298-332: the text that becomes the summary, before normalize_text,
\* and the summary handed to choose_summary (NotHanded when it is not called).
ingest_summary(title, summary, isBank, got) ==
    IF isBank
    THEN [provided |-> NotHanded,
          candidate |-> IF got.html = NoPage \/ got.html.nbu = "" THEN None ELSE got.html.nbu]
    ELSE IF got.html_for_summary # NoPage
    THEN [provided |-> summary,
          candidate |-> choose_summary(title, summary, got.html_for_summary)]
    ELSE [provided |-> NotHanded, candidate |-> summary]

\* Lines 306-360: the returns for want of a body, else on to the commit.
IngestDecide(w, isBank, got, chosen, call) ==
    IF w.raises
    THEN Return(call, Guarded("raised"), articles)
    ELSE IF isBank /\ (got.html = NoPage \/ chosen.candidate = None)
    THEN Return(call, "skipped_no_body", articles)
    ELSE IF isBank /\ (call.summary_text = None \/ ~got.html.reliable)
    THEN Return(call, "skipped_no_body", articles)
    ELSE IF call.summary_text = None
    THEN Return(call, "skipped_no_body", articles)
    ELSE /\ iPc' = "commit"
         /\ iCall' = call
         /\ UNCHANGED <<articles, iHist, cycleVars>>

IngestChosen(w, isBank, got, chosen) ==
    IngestDecide(w, isBank, got, chosen,
                 [iCall EXCEPT !.fetched = got.fetched, !.served = got.served,
                               !.provided = chosen.provided,
                               !.summary_html = got.html_for_summary,
                               !.image_html = got.image_source_html,
                               !.image_base = got.image_base,
                               !.image_url = got.image_url,
                               !.summary_text = normalize_text(chosen.candidate),
                               !.faulted = w.raises])

IngestFetched(w, isBank, got) ==
    IngestChosen(w, isBank, got, ingest_summary(iCall.title, iCall.summary, isBank, got))

\* The page fetches and the body selection (lines 252-360).
IngestFetch(w) ==
    /\ iPc = "fetch"
    /\ IngestFetched(w, EndsWith(domain(iCall.normalized_url), "bank.gov.ua"),
                     ingest_pages(w, iCall.url, iCall.normalized_url))
    /\ UNCHANGED <<fetchVars, textVars, previewVars, dateVars, botVars>>

\* title or normalized_url
article_title(call) ==
    IF call.title # "" THEN call.title ELSE call.normalized_url.host \o call.normalized_url.path

\* s.add(art); await s.commit(): the row is stored under normalized_url; a
\* database failure or a violated unique constraint on url raises.
IngestCommit(db) ==
    /\ iPc = "commit"
    /\ LET art == [id |-> Cardinality(articles) + 1, title |-> article_title(iCall),
                   url |-> iCall.normalized_url,
                   source_domain |-> domain(iCall.normalized_url),
                   summary |-> iCall.summary_text, image_url |-> iCall.image_url,
                   level1_ok |-> in_whitelist_lvl1(domain(iCall.normalized_url))]
           clash == \E a \in articles : a.url = art.url
           call == [iCall EXCEPT !.faulted = (db = "raise" \/ clash)]
       IN IF db = "raise" \/ clash
          THEN Return(call, Guarded("raised"), articles)
          ELSE Return(call, "created", articles \cup {art})
    /\ UNCHANGED <<fetchVars, textVars, previewVars, dateVars, botVars>>

IngestIdle ==
    /\ articles = {}
    /\ iPc = "idle"
    /\ iCall = NoCall
    /\ iHist = <<>>

(***************************************************************************)
(* jobs/fetch.py : run_ingest_cycle                                        *)
(***************************************************************************)

\* Items of the feed sources: url, title, summary, and whether the entry is
\* dated ("fresh"), older than the cutoff ("old") or undated ("none").
Item(url, summary, published) ==
    [url |-> url, title |-> "Title", summary |-> summary, published |-> published]

\* Summaries a feed entry carries: none, blank, and a teaser with untidy spacing.
Teaser == " Teaser  of the feed\nin two lines.\n\nSecond paragraph. "
Summaries == {"", " \n ", Teaser}

Items == {Item(u, sm, "fresh") : u \in ItemUrls, sm \in Summaries}

\* Batches a cycle may meet: seed feeds, the NBU and DPS listings (each
\* inside a try/except of its own) and a Google News topic feed (without).
Batches ==
    { << [kind |-> "rss", items |-> <<Item(TaxArticle, Teaser, "fresh"),
                                      Item(BlogArticle, "teaser", "fresh"),
                                      Item(OecdArticle, "", "old")>>],
         [kind |-> "nbu", items |-> <<Item(BankArticle, "", "fresh"),
                                      Item(BankArticle, "", "fresh")>>],
         [kind |-> "tax", items |-> <<>>],
         [kind |-> "google", items |-> <<Item(Wrapped("news.google.com", "/rss/articles/2",
                                                      TaxArticle), "teaser", "fresh"),
                                         Item(OecdArticle, "teaser", "fresh")>>] >>,
      << [kind |-> "rss", items |-> <<Item(OecdArticle, "teaser", "none")>>],
         [kind |-> "tax", items |-> <<Item(TaxPrint, "", "fresh"),
                                      Item(TaxArticle, "", "fresh")>>] >> }

\* The number of entries of a batch.
RECURSIVE BatchSize(_)
BatchSize(batch) ==
    IF batch = <<>> THEN 0 ELSE Len(Head(batch).items) + BatchSize(Tail(batch))

\* The number of verdicts counted.
Counted(counts) ==
    counts["created"] + counts["duplicate"] + counts["skipped_level1"]
    + counts["skipped_no_body"] + counts["error"] + counts["skipped_no_date"]
    + counts["skipped_old"]

NoCounts == [v \in Verdicts |-> 0]

CycleIdle ==
    /\ cPc = "off"
    /\ cBatch = <<>>
    /\ cPos = <<1, 1>>
    /\ cResults = NoCounts

\* The next entry of the cycle is undated or too old: it is counted and
\* skipped without calling ingest_one.
CycleSkipEntry ==
    /\ cPc = "running"
    /\ iPc = "idle"
    /\ LET item == cBatch[cPos[1]].items[cPos[2]]
           next == CycleAfter(cBatch, cPos, "skipped")
       IN /\ item.published # "fresh"
          /\ cResults' = [cResults EXCEPT
                 ![IF item.published = "none" THEN "skipped_no_date" ELSE "skipped_old"] = @ + 1]
          /\ cPos' = next
          /\ cPc' = IF next[1] > Len(cBatch) THEN "done" ELSE "running"
    /\ UNCHANGED <<cBatch, fetchVars, ingestVars, textVars, previewVars, dateVars, botVars>>

\* The next entry of the cycle is handed to ingest_one.
CycleIngestEntry ==
    /\ cPc = "running"
    /\ LET item == cBatch[cPos[1]].items[cPos[2]]
       IN /\ item.published = "fresh"
          /\ IngestBegin(item)

(***************************************************************************)
(* The parsed document (selectolax HTMLParser)                             *)
(*                                                                         *)
(* A page is written as a tree of elements T(tag, attr, kids) and text     *)
(* nodes Tx(text).  HTMLParser gives its nodes in document order, each     *)
(* with the index of its parent (0 for the root): node.child, node.next,   *)
(* node.parent, traverse() and css() are read off this sequence.  An       *)
(* element carries at most one attribute, written as in a CSS selector.    *)
(***************************************************************************)

T(tag, attr, kids) == [tag |-> tag, attr |-> attr, text |-> "", kids |-> kids]

Tx(text) == [tag |-> "-text", attr |-> "", text |-> text, kids |-> <<>>]

\* <tag>text</tag>
El(tag, text) == T(tag, "", <<Tx(text)>>)

NoNode == 0

RECURSIVE Flatten(_, _, _), FlattenKids(_, _, _)
Flatten(n, parent, at) ==
    <<[tag |-> n.tag, attr |-> n.attr, text |-> n.text, parent |-> parent]>>
        \o FlattenKids(n.kids, at, at + 1)

FlattenKids(kids, parent, at) ==
    IF kids = <<>> THEN <<>>
    ELSE LET first == Flatten(Head(kids), parent, at)
         IN first \o FlattenKids(Tail(kids), parent, at + Len(first))

\* The markup of a tree, as the fetch delivers it.
RECURSIVE Serialize(_), SerializeKids(_)
Serialize(n) ==
    IF n.tag = "-text" THEN n.text
    ELSE "<" \o n.tag \o (IF n.attr = "" THEN "" ELSE " " \o n.attr) \o ">"
             \o SerializeKids(n.kids) \o "</" \o n.tag \o ">"

SerializeKids(kids) ==
    IF kids = <<>> THEN "" ELSE Serialize(Head(kids)) \o SerializeKids(Tail(kids))

\* A fetched page: its markup and the tree the parser builds from it.
Page(tree) == [html |-> Serialize(tree), dom |-> Flatten(tree, 0, 1)]

\* HTMLParser(html)
HTMLParser(page) == page.dom

\* The last node of the subtree of node i.
SubtreeEnd(d, i) ==
    IF \A j \in (i + 1)..Len(d) : d[j].parent >= i THEN Len(d)
    ELSE (CHOOSE j \in (i + 1)..Len(d) :
              /\ d[j].parent < i
              /\ \A k \in (i + 1)..(j - 1) : d[k].parent >= i) - 1

\* _contains_node(container, target)
contains_node(d, container, target) ==
    target # NoNode /\ container <= target /\ target <= SubtreeEnd(d, container)

\* node.traverse(): the elements of the subtree in document order, the
\* node itself first (text nodes are left out).
Traverse(d, i) ==
    SelectSeq(Range(i, SubtreeEnd(d, i)), LAMBDA j : d[j].tag # "-text")

\* node.css(selector) for a selector that is a set of tag names.
Css(d, i, tags) ==
    SelectSeq(Range(i, SubtreeEnd(d, i)), LAMBDA j : d[j].tag \in tags)

\* tree.css(selector) for an attribute selector.
CssAttr(d, attr) == SelectSeq(Range(1, Len(d)), LAMBDA j : d[j].attr = attr)

\* css_first
First(seq) == IF seq = <<>> THEN NoNode ELSE seq[1]

\* The children of node i, text nodes included (node.child, then .next).
Children(d, i) ==
    SelectSeq(Range(i + 1, SubtreeEnd(d, i)), LAMBDA j : d[j].parent = i)

\* The nodes after node i under the same parent (.next repeatedly).
NextSiblings(d, i) ==
    IF d[i].parent = NoNode THEN <<>>
    ELSE SelectSeq(Children(d, d[i].parent), LAMBDA j : j > i)

\* The ancestors of node i, nearest first (.parent repeatedly).
RECURSIVE Ancestors(_, _)
Ancestors(d, i) ==
    IF d[i].parent = NoNode THEN <<>> ELSE <<d[i].parent>> \o Ancestors(d, d[i].parent)

\* node.text(separator=sep): the text nodes of the subtree, joined.
NodeText(d, i, sep) ==
    LET texts == SelectSeq(Range(i, SubtreeEnd(d, i)), LAMBDA j : d[j].tag = "-text")
    IN JoinWith([k \in 1..Len(texts) |-> d[texts[k]].text], sep)

\* any(stop in lowered for stop in phrases)
HasStop(lowered, phrases) == \E k \in 1..Len(phrases) : Contains(lowered, phrases[k])

\* next(stop for stop in phrases if stop in lowered)
FirstStop(lowered, phrases) ==
    phrases[CHOOSE k \in 1..Len(phrases) :
                /\ Contains(lowered, phrases[k])
                /\ \A j \in 1..(k - 1) : ~Contains(lowered, phrases[j])]

(***************************************************************************)
(* services/tax_article.py : extract_tax_body                              *)
(***************************************************************************)

tax_WHITELIST_TAGS ==
    {"p", "div", "h2", "h3", "ul", "ol", "li", "blockquote", "table", "tr", "td"}

tax_STOP_PHRASES ==
    <<"podilytysia", "poshyryty", "ostann", "chytaite takozh", "tehy", "korysni posylannia">>

MONTHS ==
    {"sichnia", "liutoho", "bereznia", "kvitnia", "travnia", "chervnia", "lypnia",
     "serpnia", "veresnia", "zhovtnia", "lystopada", "hrudnia"}

\* Regular-expression positions: a match "at i" starts with character i,
\* an operator named ...End gives the positions just past the match.
IsWordAt(s, i) == 1 <= i /\ i <= Len(s) /\ ch(s, i) \in WordChars

\* \b before character i
Boundary(s, i) == IsWordAt(s, i - 1) # IsWordAt(s, i)

\* \d{n} at i
DigitsAt(s, i, n) ==
    /\ 1 <= i /\ i + n - 1 <= Len(s)
    /\ \A k \in i..(i + n - 1) : ch(s, k) \in Digits

\* \d{1,2} at i
Digits12End(s, i) == {i + n : n \in {n \in {1, 2} : DigitsAt(s, i, n)}}

\* \s+ at i
SpacesEnd(s, i) ==
    {j \in (i + 1)..(Len(s) + 1) : \A k \in i..(j - 1) : ch(s, k) \in Whitespace}

\* A literal at i, letter case ignored.
LiteralAt(s, i, lit) ==
    /\ 1 <= i /\ i + Len(lit) - 1 <= Len(s)
    /\ Lower(SubSeq(s, i, i + Len(lit) - 1)) = lit

\* \d{1,2}\.\d{2}\.\d{4} at i
NumericDateEnd(s, i) ==
    {j + 8 : j \in {j \in Digits12End(s, i) :
                       /\ LiteralAt(s, j, ".") /\ DigitsAt(s, j + 1, 2)
                       /\ LiteralAt(s, j + 3, ".") /\ DigitsAt(s, j + 4, 4)}}

\* \d{1,2}\s+(?:sichnia|...)(?:\s+\d{4})?\s*(?:roku)? at i
WordDateEnd(s, i) ==
    LET afterDay == UNION {SpacesEnd(s, j) : j \in Digits12End(s, i)}
        afterMonth == UNION {{j + Len(m) : m \in {m \in MONTHS : LiteralAt(s, j, m)}}
                                : j \in afterDay}
        afterYear == afterMonth \cup
                     UNION {{k + 4 : k \in {k \in SpacesEnd(s, j) : DigitsAt(s, k, 4)}}
                               : j \in afterMonth}
        afterSpace == afterYear \cup UNION {SpacesEnd(s, j) : j \in afterYear}
    IN afterSpace \cup {j + 4 : j \in {j \in afterSpace : LiteralAt(s, j, "roku")}}

\* DATE_PATTERN.search(text)
tax_DATE_PATTERN_search(text) ==
    \E i \in 1..Len(text) :
        /\ ch(text, i) \in Digits
        /\ Boundary(text, i)
        /\ \E j \in NumericDateEnd(text, i) \cup WordDateEnd(text, i) : Boundary(text, j)

\* DATE_ONLY_PATTERN.match(text)
tax_DATE_ONLY_PATTERN_match(text) ==
    \E i \in {1} \cup SpacesEnd(text, 1) :
        \E j \in NumericDateEnd(text, i) \cup WordDateEnd(text, i) :
            \A k \in j..Len(text) : ch(text, k) \in Whitespace

\* _has_whitelisted_descendant
tax_has_whitelisted_descendant(d, node) ==
    \E j \in (node + 1)..SubtreeEnd(d, node) : d[j].tag \in tax_WHITELIST_TAGS

\* _is_atomic_div
tax_is_atomic_div(d, node) ==
    d[node].tag = "div" /\ ~tax_has_whitelisted_descendant(d, node)

\* _has_table_ancestor
has_table_ancestor(d, node) ==
    \E k \in 1..Len(Ancestors(d, node)) : d[Ancestors(d, node)[k]].tag = "table"

\* _normalize_spaces(node.text(separator=" ") or "")
tax_text(d, node) == normalize_spaces(NodeText(d, node, " "))

\* A node _score_container and _collect_blocks take as a block.
tax_is_block(d, el) ==
    /\ d[el].tag \in tax_WHITELIST_TAGS
    /\ ~(d[el].tag = "div" /\ ~tax_is_atomic_div(d, el))
    /\ ~(d[el].tag \in {"tr", "td"} /\ has_table_ancestor(d, el))

RECURSIVE tax_score_sum(_, _)
tax_score_sum(d, els) ==
    IF els = <<>> THEN 0
    ELSE (IF tax_is_block(d, Head(els)) THEN Len(tax_text(d, Head(els))) ELSE 0)
         + tax_score_sum(d, Tail(els))

\* _score_container
tax_score_container(d, node) == tax_score_sum(d, Traverse(d, node))

\* candidates.append(node) unless node.mem_id is in seen
RECURSIVE AppendNew(_, _)
AppendNew(cands, nodes) ==
    IF nodes = <<>> THEN cands
    ELSE AppendNew(IF \E k \in 1..Len(cands) : cands[k] = Head(nodes)
                   THEN cands ELSE Append(cands, Head(nodes)),
                   Tail(nodes))

\* The child loop of _candidate_containers: the first `limit` unseen
\* div, section or article children.
RECURSIVE AddChildren(_, _, _, _)
AddChildren(d, cands, kids, limit) ==
    IF kids = <<>> \/ limit = 0 THEN cands
    ELSE IF /\ d[Head(kids)].tag \in {"div", "section", "article"}
            /\ \A k \in 1..Len(cands) : cands[k] # Head(kids)
    THEN AddChildren(d, Append(cands, Head(kids)), Tail(kids), limit - 1)
    ELSE AddChildren(d, cands, Tail(kids), limit)

RECURSIVE AddChildrenOf(_, _, _, _)
AddChildrenOf(d, cands, parents, limit) ==
    IF parents = <<>> THEN cands
    ELSE AddChildrenOf(d, AddChildren(d, cands, Children(d, Head(parents)), limit),
                       Tail(parents), limit)

\* _candidate_containers
candidate_containers(d, headline) ==
    LET ancestors == IF headline = NoNode THEN <<>> ELSE Ancestors(d, headline)
        near == SubSeq(ancestors, 1, Min(10, Len(ancestors)))
        selected == AppendNew(AppendNew(AppendNew(AppendNew(near,
                        Css(d, 1, {"article"})), Css(d, 1, {"main"})),
                        CssAttr(d, "role=\"main\"")), Css(d, 1, {"section"}))
        siblings == AddChildrenOf(d, selected, ancestors, 6)
        main_like == SelectSeq(siblings, LAMBDA n : d[n].tag \in {"main", "article"})
    IN AddChildrenOf(d, siblings, main_like, 8)

RECURSIVE best_of(_, _, _, _)
best_of(d, pool, headline, best) ==
    IF pool = <<>> THEN best
    ELSE LET node == Head(pool)
             score == tax_score_container(d, node)
                      + (IF contains_node(d, node, headline) THEN 50 ELSE 0)
         IN best_of(d, Tail(pool), headline,
                    IF score > best.score THEN [node |-> node, score |-> score] ELSE best)

\* _best_container
best_container(d, headline) ==
    LET candidates == candidate_containers(d, headline)
        prioritized == SelectSeq(candidates, LAMBDA n : contains_node(d, n, headline))
        pool == IF prioritized # <<>> THEN prioritized ELSE candidates
    IN best_of(d, pool, headline, [node |-> NoNode, score |-> 0]).node

\* _table_rows
table_cells(d, row) ==
    LET cells == SelectSeq(Css(d, row, {"th", "td"}), LAMBDA c : tax_text(d, c) # "")
    IN JoinWith([k \in 1..Len(cells) |-> tax_text(d, cells[k])], " - ")

table_rows(d, table) ==
    LET rows == SelectSeq(Css(d, table, {"tr"}), LAMBDA r : table_cells(d, r) # "")
    IN [k \in 1..Len(rows) |-> table_cells(d, rows[k])]

\* _iter_blocks
tax_iter_blocks(d, container, after) ==
    LET inner == Tail(Traverse(d, container))
    IN IF after = NoNode THEN inner
       ELSE IF \E k \in 1..Len(inner) : inner[k] = after
       THEN SelectSeq(inner, LAMBDA n : n > after)
       ELSE <<>>

Block(text, tag) == [text |-> text, tag |-> tag]

\* The loop over the <li> of a list in _collect_blocks; st.done: the
\* function returned at a stop phrase.
RECURSIVE collect_list(_, _, _)
collect_list(d, st, lis) ==
    IF lis = <<>> \/ st.done THEN st
    ELSE LET li_text == tax_text(d, Head(lis))
             bullet == "* " \o li_text
         IN IF li_text = "" THEN collect_list(d, st, Tail(lis))
            ELSE IF HasStop(Lower(li_text), tax_STOP_PHRASES)
            THEN [st EXCEPT !.done = TRUE,
                            !.stop_reason = FirstStop(Lower(li_text), tax_STOP_PHRASES)]
            ELSE IF bullet \in st.seen THEN collect_list(d, st, Tail(lis))
            ELSE collect_list(d, [st EXCEPT !.seen = @ \cup {bullet},
                                            !.blocks = Append(@, Block(bullet, "li")),
                                            !.added_any = TRUE],
                              Tail(lis))

\* The loop over the rows of a table in _collect_blocks.
RECURSIVE collect_rows(_, _)
collect_rows(st, rows) ==
    IF rows = <<>> \/ st.done THEN st
    ELSE IF HasStop(Lower(Head(rows)), tax_STOP_PHRASES)
    THEN [st EXCEPT !.done = TRUE,
                    !.stop_reason = FirstStop(Lower(Head(rows)), tax_STOP_PHRASES)]
    ELSE IF Head(rows) \in st.seen THEN collect_rows(st, Tail(rows))
    ELSE collect_rows([st EXCEPT !.seen = @ \cup {Head(rows)},
                                 !.blocks = Append(@, Block(Head(rows), "table"))],
                      Tail(rows))

\* One node of the loop of _collect_blocks, from its text on.
collect_text(d, st, node, headline_text) ==
    LET tag == d[node].tag
        text == tax_text(d, node)
        bullet == "* " \o text
    IN IF text = "" THEN st
       ELSE IF HasStop(Lower(text), tax_STOP_PHRASES)
       THEN [st EXCEPT !.done = TRUE,
                       !.stop_reason = FirstStop(Lower(text), tax_STOP_PHRASES)]
       ELSE IF headline_text # "" /\ Lower(text) = headline_text THEN st
       ELSE IF tag = "li"
       THEN IF bullet \in st.seen THEN st
            ELSE [st EXCEPT !.seen = @ \cup {bullet}, !.blocks = Append(@, Block(bullet, tag))]
       ELSE IF text \in st.seen THEN st
       ELSE [st EXCEPT !.seen = @ \cup {text},
                       !.blocks = Append(@, Block(text, tag)),
                       !.paragraphs = IF tag \in {"p", "div"} THEN @ + 1 ELSE @]

\* One node of the loop of _collect_blocks.
collect_node(d, st, node, headline_text) ==
    LET tag == d[node].tag
        listed == IF tag \in {"ul", "ol"}
                  THEN collect_list(d, [st EXCEPT !.added_any = FALSE], Css(d, node, {"li"}))
                  ELSE [st EXCEPT !.added_any = FALSE]
    IN IF tag \in {"script", "style", "noscript"} \/ ~tax_is_block(d, node) THEN st
       ELSE IF listed.done \/ listed.added_any THEN listed
       ELSE IF tag = "table" THEN collect_rows(listed, table_rows(d, node))
       ELSE collect_text(d, listed, node, headline_text)

RECURSIVE collect_loop(_, _, _, _)
collect_loop(d, st, nodes, headline_text) ==
    IF nodes = <<>> \/ st.done THEN st
    ELSE collect_loop(d, collect_node(d, st, Head(nodes), headline_text), Tail(nodes),
                      headline_text)

\* _collect_blocks
collect_blocks(d, container, after, headline_text) ==
    collect_loop(d, [blocks |-> <<>>, seen |-> {}, paragraphs |-> 0, stop_reason |-> None,
                     done |-> FALSE, added_any |-> FALSE],
                 tax_iter_blocks(d, container, after), headline_text)

\* _remove_leading_noise: <<blocks, adjusted_paragraphs>>
RECURSIVE drop_dates(_)
drop_dates(blocks) ==
    IF blocks # <<>> /\ tax_DATE_ONLY_PATTERN_match(Head(blocks).text)
    THEN drop_dates(Tail(blocks)) ELSE blocks

remove_leading_noise(blocks) ==
    LET kept == drop_dates(blocks)
        dropped == SubSeq(blocks, 1, Len(blocks) - Len(kept))
        count(bs) == Len(SelectSeq(bs, LAMBDA b : b.tag \in {"p", "div"}))
    IN <<kept, count(blocks) - count(dropped)>>

\* re.sub(r"\n{3,}", "\n\n", text)
RECURSIVE squeeze_newlines(_)
squeeze_newlines(text) ==
    IF ~Contains(text, "\n\n\n") THEN text
    ELSE LET i == Find(text, "\n\n\n")
         IN squeeze_newlines(SubSeq(text, 1, i + 1) \o SubSeq(text, i + 3, Len(text)))

\* _join_blocks
tax_join_blocks(blocks) ==
    LET kept == SelectSeq(blocks, LAMBDA b : Strip(b.text) # "")
    IN Strip(squeeze_newlines(JoinWith([k \in 1..Len(kept) |-> Strip(kept[k].text)], "\n\n")))

\* _first_words_match
first_words_match(text, html) ==
    LET sample == FirstWords(Lower(text), 3, 10)
        html_lower == Lower(html)
        matches == Cardinality({k \in 1..Len(sample) : Contains(html_lower, sample[k])})
    IN sample # <<>> /\ matches >= Max(3, Len(sample) \div 2)

\* _is_valid
is_valid(text, paragraphs, html) ==
    /\ text # ""
    /\ ~(Len(text) < 250 /\ paragraphs < 2)
    /\ first_words_match(text, html)

\* _find_date_node
find_date_node(d, container, headline) ==
    IF headline = NoNode THEN NoNode
    ELSE First(SelectSeq(Traverse(d, container), LAMBDA n :
                   /\ n # container /\ n > headline
                   /\ contains_node(d, container, headline)
                   /\ tax_text(d, n) # ""
                   /\ tax_DATE_PATTERN_search(tax_text(d, n))))

\* gather(tags) of _all_paragraphs: <<gathered, seen>>
RECURSIVE gather(_, _, _, _)
gather(d, nodes, tags, acc) ==
    IF nodes = <<>> THEN acc
    ELSE LET node == Head(nodes)
             text == tax_text(d, node)
         IN IF \/ d[node].tag \notin tags
               \/ (d[node].tag = "div" /\ ~tax_is_atomic_div(d, node))
               \/ text = ""
               \/ HasStop(Lower(text), tax_STOP_PHRASES)
               \/ text \in acc[2]
            THEN gather(d, Tail(nodes), tags, acc)
            ELSE gather(d, Tail(nodes), tags,
                        <<Append(acc[1], Block(text, d[node].tag)), acc[2] \cup {text}>>)

\* _all_paragraphs; combined = "" stands for the result None.
all_paragraphs(d) ==
    LET ps == gather(d, Traverse(d, 1), {"p"}, <<<<>>, {}>>)
        blocks == IF ps[1] = <<>> THEN gather(d, Traverse(d, 1), {"div"}, <<<<>>, {}>>)[1]
                  ELSE gather(d, Traverse(d, 1), {"div"}, ps)[1]
        combined == Strip(JoinWith([k \in 1..Len(blocks) |-> blocks[k].text], "\n\n"))
    IN IF blocks = <<>> \/ combined = ""
       THEN [combined |-> "", paragraph_count |-> 0, div_count |-> 0]
       ELSE [combined |-> combined,
             paragraph_count |-> Len(SelectSeq(blocks, LAMBDA b : b.tag = "p")),
             div_count |-> Len(SelectSeq(blocks, LAMBDA b : b.tag = "div"))]

\* extract_tax_body, from the last statement back to the first: each step
\* takes what the statements before it have computed.
\*
\* The returns of extract_tax_body, given the texts of the two passes over
\* the container and the result of _all_paragraphs.
tax_return(primary_text, primary_paragraphs, scored_text, scored_paragraphs, fallback, html) ==
    IF primary_text # "" /\ is_valid(primary_text, primary_paragraphs, html) THEN primary_text
    ELSE IF scored_text # "" /\ is_valid(scored_text, scored_paragraphs, html) THEN scored_text
    ELSE IF fallback.combined # "" THEN fallback.combined
    ELSE IF primary_text = "" \/ Len(scored_text) > Len(primary_text)
    THEN IF scored_text # "" /\ first_words_match(scored_text, html) THEN scored_text ELSE None
    ELSE IF first_words_match(primary_text, html) THEN primary_text ELSE None

\* text = _join_blocks(blocks) of the two passes; a pass that is not made
\* gives no text.
tax_joined(primary, scored, container, start_after, fallback, html) ==
    tax_return(IF container # NoNode /\ start_after # NoNode
               THEN tax_join_blocks(primary[1]) ELSE "",
               primary[2],
               IF container # NoNode THEN tax_join_blocks(scored[1]) ELSE "",
               scored[2], fallback, html)

\* _collect_blocks and _remove_leading_noise from start_after and from the
\* start of the container, and _all_paragraphs.
tax_collected(d, html, headline_text, container, start_after) ==
    tax_joined(remove_leading_noise(
                   collect_blocks(d, container, start_after, headline_text).blocks),
               remove_leading_noise(collect_blocks(d, container, NoNode, headline_text).blocks),
               container, start_after, all_paragraphs(d), html)

\* start_after = date_node or headline
tax_start_after(date_node, headline) == IF date_node # NoNode THEN date_node ELSE headline

\* date_node = container and _find_date_node(container, headline)
tax_located(d, html, headline, container) ==
    tax_collected(d, html,
                  IF headline = NoNode THEN "" ELSE tax_text(d, headline),
                  container,
                  tax_start_after(IF container = NoNode THEN NoNode
                                  ELSE find_date_node(d, container, headline),
                                  headline))

\* headline = tree.css_first("h1"); container, _ = _best_container(tree, headline)
tax_headed(d, html, headline) == tax_located(d, html, headline, best_container(d, headline))

extract_tax_body(page) ==
    tax_headed(HTMLParser(page), page.html, First(Css(HTMLParser(page), 1, {"h1"})))

(***************************************************************************)
(* services/article_text.py : extract_article_text                         *)
(***************************************************************************)

MAX_ARTICLE_CHARS == 4000

PRIMARY_SELECTORS ==
    <<"class=\"article__content\"", "class=\"article__body\"", "class=\"article__text\"",
      "class=\"news__content\"", "class=\"news__text\"">>

CONTENT_SELECTORS == {"p", "li", "h2", "h3", "h4", "blockquote"}

STOP_HEADLINE_PHRASES_LOWER ==
    <<"novyny po temi", "po temi", "related", "chytaite takozh", "chytaite takozh">>

STOP_SECTION_PHRASES_LOWER ==
    <<"tehy", "podilytysia", "podelitsia", "ostanni novyny", "ostanni publikatsii",
      "related", "chytaite takozh", "chytaite takozh">>

\* \b\d{1,2}:\d{2}\b at i
TimeEnd(s, i) ==
    {j + 3 : j \in {j \in Digits12End(s, i) : LiteralAt(s, j, ":") /\ DigitsAt(s, j + 1, 2)}}

\* _DATE_PATTERN.search(text).  Its first alternative ends in whitespace
\* followed by the second one, so the pattern is found exactly where the
\* second alternative, a time of day, is found.
art_DATE_PATTERN_search(text) ==
    \E i \in 1..Len(text) :
        /\ ch(text, i) \in Digits
        /\ Boundary(text, i)
        /\ \E j \in TimeEnd(text, i) : Boundary(text, j)

\* (node.text(separator=" ") or "").strip()
art_text(d, node) == Strip(NodeText(d, node, " "))

\* The loop of _collect_after_headline over the nodes that follow the
\* headline; st.done: the loop was left by break.
collect_after_step(d, st, current, seen) ==
    LET tag == d[current].tag
        text == art_text(d, current)
        lowered == Lower(text)
    IN IF tag = "h1" THEN [st EXCEPT !.done = TRUE]
       ELSE IF tag \in {"script", "style", "noscript"} \/ tag \notin CONTENT_SELECTORS THEN st
       ELSE IF text = "" \/ Len(text) < 4 THEN st
       ELSE IF tag \in {"h2", "h3", "h4"} /\ HasStop(lowered, STOP_HEADLINE_PHRASES_LOWER)
       THEN [st EXCEPT !.done = TRUE]
       ELSE IF HasStop(lowered, STOP_SECTION_PHRASES_LOWER) THEN [st EXCEPT !.done = TRUE]
       ELSE IF ~st.skipped_date /\ art_DATE_PATTERN_search(text)
       THEN [st EXCEPT !.skipped_date = TRUE]
       ELSE IF text \in seen \/ text \in st.local_seen
       THEN [st EXCEPT !.skipped_date = TRUE]
       ELSE [st EXCEPT !.skipped_date = TRUE, !.local_seen = @ \cup {text},
                       !.blocks = Append(@, text)]

RECURSIVE collect_after_loop(_, _, _, _)
collect_after_loop(d, st, nodes, seen) ==
    IF nodes = <<>> \/ st.done THEN st
    ELSE collect_after_loop(d, collect_after_step(d, st, Head(nodes), seen), Tail(nodes), seen)

\* _collect_after_headline.  _next_node_in_document climbs until
\* `current is boundary`; identity: whether a parent reached by climbing is
\* ever that very object.  Without it the walk runs to the end of the
\* document.
collect_after_headline(d, node, headline, seen, identity) ==
    LET last == IF identity /\ contains_node(d, node, headline)
                THEN SubtreeEnd(d, node) ELSE Len(d)
    IN collect_after_loop(d, [blocks |-> <<>>, local_seen |-> {}, skipped_date |-> FALSE,
                              done |-> FALSE],
                          Range(headline + 1, last), seen).blocks

\* _iter_fallback_children
RECURSIVE iter_fallback_children(_, _, _)
iter_fallback_children(d, kids, blocks) ==
    IF kids = <<>> THEN blocks
    ELSE LET child == Head(kids)
             text == art_text(d, child)
         IN IF d[child].tag \in {"script", "style", "noscript"} \/ text = ""
            THEN iter_fallback_children(d, Tail(kids), blocks)
            ELSE IF HasStop(Lower(text), STOP_SECTION_PHRASES_LOWER) THEN blocks
            ELSE IF Len(text) >= 4 /\ \A k \in 1..Len(blocks) : blocks[k] # text
            THEN iter_fallback_children(d, Tail(kids), Append(blocks, text))
            ELSE iter_fallback_children(d, Tail(kids), blocks)

\* The first headline after which _collect_after_headline finds blocks.
RECURSIVE first_headline_blocks(_, _, _, _)
first_headline_blocks(d, node, headlines, identity) ==
    IF headlines = <<>> THEN <<>>
    ELSE LET blocks == collect_after_headline(d, node, Head(headlines), {}, identity)
         IN IF blocks # <<>> THEN blocks
            ELSE first_headline_blocks(d, node, Tail(headlines), identity)

\* list(_iter_blocks(node))
art_iter_blocks(d, node, identity) ==
    IF Css(d, node, {"h1"}) = <<>> THEN iter_fallback_children(d, Children(d, node), <<>>)
    ELSE first_headline_blocks(d, node, Css(d, node, {"h1"}), identity)

\* _join_blocks without its checks for nothing to join.
art_join_blocks_unchecked(blocks) == JoinWith(blocks, "\n\n")

\* _join_blocks; None when there is nothing to return.
art_join_blocks(blocks) ==
    LET combined == Strip(JoinWith(blocks, "\n\n"))
        truncated == Slice(combined, MAX_ARTICLE_CHARS)
        last_break == RFind(truncated, "\n\n") - 1
        cut == IF Len(combined) <= MAX_ARTICLE_CHARS THEN combined
               ELSE IF last_break > 2000 THEN Strip(Slice(truncated, last_break))
               ELSE IF RFind(truncated, " ") = 0 THEN Strip(truncated)
               ELSE Strip(Slice(truncated, RFind(truncated, " ") - 1))
    IN IF blocks = <<>> \/ combined = "" \/ cut = "" THEN None ELSE cut

\* The ancestors of each headline in turn.
RECURSIVE AncestorsOfAll(_, _)
AncestorsOfAll(d, hs) ==
    IF hs = <<>> THEN <<>> ELSE Ancestors(d, Head(hs)) \o AncestorsOfAll(d, Tail(hs))

\* _candidate_nodes
candidate_nodes(d) ==
    LET byClass == [k \in 1..Len(PRIMARY_SELECTORS) |->
                       First(CssAttr(d, PRIMARY_SELECTORS[k]))]
        mains == Css(d, 1, {"main"})
        inMain == SelectSeq(Css(d, 1, {"article"}), LAMBDA a :
                      \E k \in 1..Len(mains) : mains[k] < a /\ contains_node(d, mains[k], a))
        dataDivs == SelectSeq(CssAttr(d, "data-component=\"article\""),
                              LAMBDA n : d[n].tag = "div")
        bodyDivs == SelectSeq(CssAttr(d, "itemprop=\"articleBody\""),
                              LAMBDA n : d[n].tag = "div")
        chosen == byClass \o <<First(inMain), First(Css(d, 1, {"article"})),
                               First(mains), First(Css(d, 1, {"section"})),
                               First(dataDivs), First(bodyDivs)>>
    IN AppendNew(<<>>, SelectSeq(chosen \o AncestorsOfAll(d, Css(d, 1, {"h1"})),
                                 LAMBDA n : n # NoNode))

\* The loop of extract_article_text over the candidates.
RECURSIVE first_combined(_, _, _)
first_combined(d, nodes, identity) ==
    IF nodes = <<>> THEN None
    ELSE LET combined == art_join_blocks(art_iter_blocks(d, Head(nodes), identity))
         IN IF combined # None /\ combined # "" THEN combined
            ELSE first_combined(d, Tail(nodes), identity)

\* extract_article_text
extract_article_text(page, identity) ==
    LET d == HTMLParser(page)
        found == first_combined(d, candidate_nodes(d), identity)
    IN IF found # None THEN found
       ELSE art_join_blocks(first_headline_blocks(d, 1, Css(d, 1, {"h1"}), identity))

(***************************************************************************)
(* services/nbu_article.py : extract_nbu_body,                             *)
(* extract_body_fallback_generic                                           *)
(***************************************************************************)

nbu_STOP_PHRASES == <<"tehy", "podilytysia", "ostann">>

nbu_WHITELIST_TAGS == {"p", "div", "h2", "h3", "ul", "ol", "li", "blockquote"}

MIN_BODY_LENGTH == 200

\* max_len of extract_body_fallback_generic
GENERIC_MAX_LEN == 3500

\* [letters.]+ at i
LettersEnd(s, i) ==
    {j \in (i + 1)..Len(s) : \A k \in i..(j - 1) : ch(s, k) \in UpperCase \cup LowerCase \cup {"."}}

\* DATE_RE.search(text)
nbu_DATE_RE_search(text) ==
    \/ \E i \in 1..Len(text) :
          /\ ch(text, i) \in Digits
          /\ \E a \in UNION {SpacesEnd(text, j) : j \in Digits12End(text, i)} :
             \E b \in UNION {SpacesEnd(text, j) : j \in LettersEnd(text, a)} :
             \E c \in {c \in SpacesEnd(text, b + 4) : DigitsAt(text, b, 4)} :
                 DigitsAt(text, c, 2) /\ LiteralAt(text, c + 2, ":") /\ DigitsAt(text, c + 3, 2)
    \/ \E j \in Digits12End(text, 1) :
          LiteralAt(text, j, ":") /\ DigitsAt(text, j + 1, 2) /\ j + 2 = Len(text)

\* (node.text() or "").strip()
nbu_text(d, node) == Strip(NodeText(d, node, ""))

\* _words_match
words_match(text, html) ==
    LET sample == FirstWords(Lower(text), 4, 8)
        html_lower == Lower(html)
        matches == Cardinality({k \in 1..Len(sample) : Contains(html_lower, sample[k])})
    IN sample # <<>> /\ matches >= Min(3, Len(sample))

\* is_reliable_nbu_body; "" stands for a body of None.
is_reliable_nbu_body(text, html) ==
    /\ text # "" /\ html # ""
    /\ Len(text) >= MIN_BODY_LENGTH
    /\ words_match(text, html)

\* _has_whitelisted_descendant, _is_atomic_div
nbu_is_atomic_div(d, node) ==
    /\ d[node].tag = "div"
    /\ \A j \in (node + 1)..SubtreeEnd(d, node) : d[j].tag \notin nbu_WHITELIST_TAGS

\* _iter_after_headline: the siblings after the date line (or after the
\* first sibling with text).
iter_after_headline(d, headline) ==
    LET near == SubSeq(NextSiblings(d, headline), 1, Min(50, Len(NextSiblings(d, headline))))
        withText == SelectSeq(near, LAMBDA n : nbu_text(d, n) # "")
        dated == SelectSeq(withText, LAMBDA n : nbu_DATE_RE_search(nbu_text(d, n)))
        start_node == IF dated # <<>> THEN dated[1]
                      ELSE IF withText # <<>> THEN withText[1]
                      ELSE headline
        rest == NextSiblings(d, start_node)
    IN SubSeq(rest, 1, Min(2000, Len(rest)))

\* The <li> loops of _collect_from_node and extract_body_fallback_generic.
RECURSIVE nbu_collect_list(_, _, _)
nbu_collect_list(d, st, lis) ==
    IF lis = <<>> THEN st
    ELSE LET li_text == nbu_text(d, Head(lis))
         IN IF li_text = "" \/ li_text \in st.seen THEN nbu_collect_list(d, st, Tail(lis))
            ELSE nbu_collect_list(d, [st EXCEPT !.seen = @ \cup {li_text},
                                                !.parts = Append(@, "* " \o li_text)],
                                  Tail(lis))

\* The loop of _collect_from_node
RECURSIVE collect_from_loop(_, _, _)
collect_from_loop(d, st, nodes) ==
    IF nodes = <<>> THEN st
    ELSE LET current == Head(nodes)
             tag == d[current].tag
             text == nbu_text(d, current)
             next == IF text = "" \/ text \in st.seen THEN st
                     ELSE IF tag \in {"ul", "ol"}
                     THEN nbu_collect_list(d, st, Css(d, current, {"li"}))
                     ELSE IF tag = "div" /\ ~nbu_is_atomic_div(d, current) THEN st
                     ELSE [st EXCEPT !.seen = @ \cup {text},
                                     !.parts = Append(@, IF tag = "li" THEN "* " \o text
                                                         ELSE text)]
         IN collect_from_loop(d, next, Tail(nodes))

\* _collect_from_node
collect_from_node(d, st, node) ==
    collect_from_loop(d, st,
        IF /\ d[node].tag \in nbu_WHITELIST_TAGS
           /\ (d[node].tag # "div" \/ nbu_is_atomic_div(d, node))
        THEN <<node>>
        ELSE Css(d, node, nbu_WHITELIST_TAGS))

\* The loop of extract_nbu_body
RECURSIVE nbu_body_loop(_, _, _)
nbu_body_loop(d, st, nodes) ==
    IF nodes = <<>> THEN st
    ELSE IF nbu_text(d, Head(nodes)) # ""
            /\ HasStop(Lower(nbu_text(d, Head(nodes))), nbu_STOP_PHRASES)
    THEN st
    ELSE nbu_body_loop(d, collect_from_node(d, st, Head(nodes)), Tail(nodes))

\* extract_nbu_body
extract_nbu_body(page) ==
    LET d == HTMLParser(page)
        headline == First(Css(d, 1, {"h1"}))
        parts == nbu_body_loop(d, [parts |-> <<>>, seen |-> {}],
                               iter_after_headline(d, headline)).parts
        body == Strip(JoinWith(parts, "\n\n"))
    IN IF headline = NoNode THEN None
       ELSE IF ~is_reliable_nbu_body(body, page.html) THEN None
       ELSE IF body = "" THEN None ELSE body

\* _score_container
RECURSIVE nbu_score_sum(_, _)
nbu_score_sum(d, els) ==
    IF els = <<>> THEN 0
    ELSE (IF /\ d[Head(els)].tag \in nbu_WHITELIST_TAGS
             /\ (d[Head(els)].tag # "div" \/ nbu_is_atomic_div(d, Head(els)))
          THEN Len(nbu_text(d, Head(els))) ELSE 0)
         + nbu_score_sum(d, Tail(els))

nbu_score_container(d, node) == nbu_score_sum(d, Traverse(d, node))

RECURSIVE nbu_best_of(_, _, _)
nbu_best_of(d, candidates, best) ==
    IF candidates = <<>> THEN best
    ELSE LET score == nbu_score_container(d, Head(candidates))
         IN nbu_best_of(d, Tail(candidates),
                        IF score > best.score THEN [node |-> Head(candidates), score |-> score]
                        ELSE best)

\* The <p> and atomic <div> texts under a node, each once.
RECURSIVE paragraph_parts(_, _, _)
paragraph_parts(d, els, parts) ==
    IF els = <<>> THEN parts
    ELSE LET el == Head(els)
             text == nbu_text(d, el)
         IN IF /\ (d[el].tag = "p" \/ nbu_is_atomic_div(d, el))
               /\ text # ""
               /\ \A k \in 1..Len(parts) : parts[k] # text
            THEN paragraph_parts(d, Tail(els), Append(parts, text))
            ELSE paragraph_parts(d, Tail(els), parts)

\* The main loop of extract_body_fallback_generic over best.traverse()
RECURSIVE generic_loop(_, _, _)
generic_loop(d, st, els) ==
    IF els = <<>> THEN st
    ELSE LET el == Head(els)
             tag == d[el].tag
             text == nbu_text(d, el)
         IN IF \/ tag \notin nbu_WHITELIST_TAGS
               \/ (tag = "div" /\ ~nbu_is_atomic_div(d, el))
               \/ text = ""
            THEN generic_loop(d, st, Tail(els))
            ELSE IF HasStop(Lower(text), nbu_STOP_PHRASES) THEN st
            ELSE IF tag \in {"ul", "ol"}
            THEN generic_loop(d, nbu_collect_list(d, st, Css(d, el, {"li"})), Tail(els))
            ELSE IF text \in st.seen THEN generic_loop(d, st, Tail(els))
            ELSE generic_loop(d, [st EXCEPT !.seen = @ \cup {text},
                                            !.parts = Append(@, IF tag = "li" THEN "* " \o text
                                                                ELSE text)],
                              Tail(els))

\* extract_body_fallback_generic
extract_body_fallback_generic(page) ==
    LET d == HTMLParser(page)
        h1 == First(Css(d, 1, {"h1"}))
        selected == SelectSeq(<<First(Css(d, 1, {"main"})), First(Css(d, 1, {"article"})),
                                First(CssAttr(d, "role=\"main\"")),
                                First(CssAttr(d, "itemprop=\"articleBody\"")),
                                IF h1 = NoNode THEN NoNode ELSE d[h1].parent>>,
                              LAMBDA n : n # NoNode)
        candidates == IF selected # <<>> THEN selected ELSE Css(d, 1, {"div", "section"})
        best == nbu_best_of(d, candidates, [node |-> NoNode, score |-> 0])
        whole == Strip(JoinWith(paragraph_parts(d, Traverse(d, 1), <<>>), "\n\n"))
        parts == generic_loop(d, [parts |-> <<>>, seen |-> {}], Traverse(d, best.node)).parts
        body == Strip(JoinWith(parts, "\n\n"))
        fallback == Strip(JoinWith(paragraph_parts(d, Traverse(d, best.node), <<>>), "\n\n"))
        chosen == IF Len(body) < MIN_BODY_LENGTH /\ Len(fallback) > Len(body)
                  THEN fallback ELSE body
    IN IF best.node = NoNode \/ best.score = 0
       THEN IF Len(whole) >= MIN_BODY_LENGTH THEN Slice(whole, GENERIC_MAX_LEN) ELSE None
       ELSE IF chosen = "" THEN None
       ELSE Slice(chosen, GENERIC_MAX_LEN)

(***************************************************************************)
(* Pages handed to the extractors                                          *)
(***************************************************************************)

\* Words of a long paragraph, and of a paragraph longer than every cap.
ParaWords == 40
HugeWords == 330

\* word word ... word.
Prose(first, word, n) == first \o " " \o Rep(word \o " ", n - 1) \o word \o "."

ShortText == "Korotkyi komentar podatkovoi sluzhby."
Para1 == Prose("Zakon", "zvilniaie", ParaWords)
Para2 == Prose("Pilha", "diie", 2 * ParaWords)
Huge1 == Prose("Roziasnennia", "podatkiv", HugeWords)
Huge2 == Prose("Dodatkovo", "platnykam", HugeWords)
Solid == Rep("abcdefghij", HugeWords + 2 * ParaWords)
LongProse == Prose("Tekst", "platnykiv", 2 * HugeWords)
FooterText == "Kontakty ta rekvizyty ustanovy."
ShareText == "Podilytysia"
\* A first paragraph that mentions a time of day, and one that starts with
\* a date and goes on.
TimedPara == "Pryiom platnykiv pochnetsia o 14:30 u prymishchenni podatkovoi sluzhby."
DatedPara == "21 zhovtnia 2025 roku Prezydent pidpysav zakon pro zvilnennia vid podatkiv."

\* The blocks of the article body, by name.
BodyBlocks(body) ==
    CASE body = "empty" -> <<>>
      [] body = "blank" -> <<El("p", "   "), T("div", "", <<>>)>>
      [] body = "short" -> <<El("p", ShortText)>>
      [] body = "two" -> <<El("p", Para1), Tx("\n  "), El("p", Para2)>>
      [] body = "list" -> <<El("p", Para1),
                            T("ul", "", <<El("li", "Zakon diie dlia vsikh hrup."),
                                          El("li", "Pilha na inshi platezhi.")>>)>>
      [] body = "nested" -> <<T("div", "class=\"content\"",
                                <<El("p", Para1), El("h3", "Inshi zminy"),
                                  T("p", "", <<Tx("Dyv. "), El("a", "roziasnennia"),
                                               Tx(" vid 14:30 sohodni.")>>)>>)>>
      [] body = "divs" -> <<El("div", Para1), El("div", Para2)>>
      [] body = "table" -> <<El("p", ShortText),
                             T("table", "", <<T("tr", "", <<El("td", "Stavka"),
                                                            El("td", "18")>>)>>)>>
      [] body = "huge" -> <<El("p", Huge1), El("p", Huge2)>>
      [] body = "solid" -> <<El("p", Solid)>>
      [] body = "prose" -> <<El("p", LongProse)>>
      [] body = "timed" -> <<El("p", TimedPara), El("p", Para1), El("p", Para2)>>
      [] body = "dated" -> <<El("p", DatedPara), El("p", Para1), El("p", Para2)>>

BodyKinds == {"empty", "blank", "short", "two", "list", "nested", "divs", "table", "huge", "solid",
     "prose", "timed", "dated"}

\* The line under the headline.
MetaBlocks(meta) ==
    CASE meta = "none" -> <<>>
      [] meta = "date" -> <<T("div", "class=\"meta\"", <<Tx("21 zhovtnia 2025 roku")>>)>>
      [] meta = "datetime" -> <<T("div", "class=\"meta\"", <<Tx("23 zhovt. 2025 14:13")>>)>>

\* The share block that follows the body, and what follows it.
ShareBlocks(share) ==
    CASE share = "none" -> <<>>
      [] share = "div" -> <<T("div", "class=\"share\"", <<Tx(ShareText)>>)>>
      [] share = "span" -> <<T("div", "class=\"share\"", <<El("span", ShareText)>>)>>

AfterBlocks(after) ==
    CASE after = "none" -> <<>>
      [] after = "p" -> <<El("p", FooterText)>>
      [] after = "div" -> <<T("div", "class=\"footer\"", <<El("p", FooterText)>>)>>

HeadBlocks(headline) ==
    IF headline THEN <<El("h1", "Povidomlennia DPS")>> ELSE <<>>

\* The page of a shape: a layout around headline, meta line, body, share
\* block and footer.
Document(shape) ==
    LET content == HeadBlocks(shape.headline) \o MetaBlocks(shape.meta)
                   \o BodyBlocks(shape.body) \o ShareBlocks(shape.share)
                   \o AfterBlocks(shape.after)
        lead == HeadBlocks(shape.headline) \o MetaBlocks(shape.meta)
        inner == CASE shape.layout = "article" ->
                         <<T("main", "", <<T("article", "", content)>>)>>
                   [] shape.layout = "wrapper" ->
                         <<T("div", "", lead)>> \o BodyBlocks(shape.body)
                         \o ShareBlocks(shape.share) \o AfterBlocks(shape.after)
                   [] shape.layout = "content" ->
                         <<T("div", "class=\"page\"",
                             <<T("section", "class=\"news__content\"", content)>>)>>
    IN T("html", "", <<T("head", "", <<El("title", "DPS")>>), T("body", "", inner)>>)

\* The shapes checked; the pages longer than the caps come in fewer
\* variations than the short ones.
Shapes ==
    {sh \in [layout : {"article", "wrapper", "content"}, headline : BOOLEAN,
             meta : {"none", "date", "datetime"}, body : BodyKinds,
             share : {"none", "div", "span"}, after : {"none", "p", "div"}] :
        /\ ~sh.headline => sh.meta = "none"
        /\ sh.after = "div" => sh.share = "div"
        /\ sh.body \in {"huge", "solid", "prose"} =>
               /\ sh.headline /\ sh.meta = "date"
               /\ <<sh.share, sh.after>> \in {<<"none", "none">>, <<"div", "none">>,
                                              <<"div", "p">>}
        /\ sh.body \in {"timed", "dated"} =>
               sh.headline /\ sh.share = "none" /\ sh.after = "none"}

NoShape ==
    [layout |-> "", headline |-> FALSE, meta |-> "", body |-> "", share |-> "", after |-> ""]

NoOutput == [fn |-> "", result |-> None]

ExtractIdle ==
    /\ xShape = NoShape
    /\ xPage = [html |-> "", dom |-> <<>>]
    /\ xOut = NoOutput

\* One extractor is applied to the page.
Extracted(fn, result) ==
    /\ xShape # NoShape
    /\ xOut = NoOutput
    /\ xOut' = [fn |-> fn, result |-> result]
    /\ UNCHANGED <<xShape, xPage, fetchVars, ingestVars, cycleVars, previewVars, dateVars, botVars>>

ExtractTax == Extracted("extract_tax_body", extract_tax_body(xPage))

ExtractNbu == Extracted("extract_nbu_body", extract_nbu_body(xPage))

ExtractGeneric ==
    Extracted("extract_body_fallback_generic", extract_body_fallback_generic(xPage))

ExtractArticle(identity) ==
    Extracted("extract_article_text", extract_article_text(xPage, identity))

(***************************************************************************)
(* services/previews.py, services/text_cleanup.py : build_preview_variants *)
(*                                                                         *)
(* A loop of the source that reads a text from left to right is written as *)
(* a scan: a step operator for one pass of the loop body and an operator   *)
(* that applies it until the loop ends, at most "fuel" times, the first    *)
(* half of the passes before the second; the fuel given is a number of     *)
(* passes the loop cannot exceed.  A run of characters for which the loop  *)
(* body does nothing but append the character and move on is taken in one  *)
(* step.                                                                   *)
(***************************************************************************)

\* The ellipsis, the bullet and the backtick of the source.
ELLIPSIS == "^"

BULLET == "@"

BACKTICK == "$"

PREVIEW_WITH_IMAGE == "with_image"

PREVIEW_WITHOUT_IMAGE == "without_image"

SUBSCRIBE_PROMO_TEXT == "Pidpyshys na IT Tax Radar"

SUBSCRIBE_PROMO_URL == "https://t.me/ITTaxRadar"

\* The text of the link line ("read on>>"), letter for letter.
READ_MORE == "cytaty dali>>"

SENTENCE_ENDINGS == <<".", "!", "?", ELLIPSIS>>

VOID_TAGS == {"br", "img", "hr", "input", "meta", "link"}

WITH_IMAGE_LIMIT == 1024

WITHOUT_IMAGE_LIMIT == 4096

\* str.isalnum() of one character ('' is not alphanumeric).
AlphaNum == UpperCase \cup LowerCase \cup Digits

\* The first index not before "from" at which a character of S stands, 0 when
\* there is none.
FirstIn(s, from, S) ==
    IF \A i \in from..Len(s) : ch(s, i) \notin S THEN 0
    ELSE CHOOSE i \in from..Len(s) :
             /\ ch(s, i) \in S
             /\ \A j \in from..(i - 1) : ch(s, j) \notin S

\* The first index not before "from" at which a character outside S stands,
\* Len(s) + 1 when there is none.
FirstNotIn(s, from, S) ==
    IF \A i \in from..Len(s) : ch(s, i) \in S THEN Len(s) + 1
    ELSE CHOOSE i \in from..Len(s) :
             /\ ch(s, i) \notin S
             /\ \A j \in from..(i - 1) : ch(s, j) \in S

\* The last index at which a character outside S stands, 0 when there is
\* none.
LastNotIn(s, S) ==
    IF \A i \in 1..Len(s) : ch(s, i) \in S THEN 0
    ELSE Len(s) - (CHOOSE k \in 0..(Len(s) - 1) :
                       /\ ch(s, Len(s) - k) \notin S
                       /\ \A j \in (Len(s) - k + 1)..Len(s) : ch(s, j) \in S)

\* s.find(p, from - 1) + 1: where the first occurrence of p that starts at
\* index "from" or later starts, 0 when there is none.
FindFrom(s, p, from) ==
    IF \A i \in from..(Len(s) - Len(p) + 1) : SubSeq(s, i, i + Len(p) - 1) # p THEN 0
    ELSE CHOOSE i \in from..(Len(s) - Len(p) + 1) :
             /\ SubSeq(s, i, i + Len(p) - 1) = p
             /\ \A j \in from..(i - 1) : SubSeq(s, j, j + Len(p) - 1) # p

\* s.startswith(p, i - 1)
StartsAt(s, i, p) == i + Len(p) - 1 <= Len(s) /\ SubSeq(s, i, i + Len(p) - 1) = p

\* s.strip(chars), s.lstrip(chars), s.rstrip(chars)
StripChars(s, S) == SubSeq(s, FirstNotIn(s, 1, S), LastNotIn(s, S))

LStripChars(s, S) == SubSeq(s, FirstNotIn(s, 1, S), Len(s))

RStripChars(s, S) == SubSeq(s, 1, LastNotIn(s, S))

\* The number of characters of s that are in S.
Count(s, S) == Cardinality({i \in 1..Len(s) : ch(s, i) \in S})

\* html.escape(text, quote)
EscapeOf(c, quote) ==
    CASE c = "&" -> "&amp;"
      [] c = "<" -> "&lt;"
      [] c = ">" -> "&gt;"
      [] c = "\"" /\ quote -> "&quot;"
      [] c = "'" /\ quote -> "&#x27;"
      [] OTHER -> c

\* _escape_text
escape_text(text) == Substitute(text, {"&", "<", ">"}, LAMBDA c : EscapeOf(c, FALSE))

\* _escape_attr
escape_attr(value) ==
    Substitute(value, {"&", "<", ">", "\"", "'"}, LAMBDA c : EscapeOf(c, TRUE))

\* re.sub(r"<br\s*/?>", "\n", text, flags=re.IGNORECASE): the index just
\* past a match that starts at i, 0 when none starts there.
BrTagEnd(text, i) ==
    IF ~LiteralAt(text, i, "<br") THEN 0
    ELSE IF StartsAt(text, FirstNotIn(text, i + 3, Whitespace), "/>")
    THEN FirstNotIn(text, i + 3, Whitespace) + 2
    ELSE IF StartsAt(text, FirstNotIn(text, i + 3, Whitespace), ">")
    THEN FirstNotIn(text, i + 3, Whitespace) + 1
    ELSE 0

BrTags(text, from) == {i \in from..Len(text) : ch(text, i) = "<" /\ BrTagEnd(text, i) # 0}

RECURSIVE br_to_newline(_, _)
br_to_newline(text, from) ==
    IF BrTags(text, from) = {} THEN SubSeq(text, from, Len(text))
    ELSE SubSeq(text, from, FirstIn(text, from, {"<"}) - 1)
         \o (IF BrTagEnd(text, FirstIn(text, from, {"<"})) # 0
             THEN "\n" \o br_to_newline(text, BrTagEnd(text, FirstIn(text, from, {"<"})))
             ELSE "<" \o br_to_newline(text, FirstIn(text, from, {"<"}) + 1))

\* re.sub(r"<[^>]+>", "", t): the next match not before "from", as <<first
\* index, last index>>, <<0, 0>> when there is none.  "<>" is no match.
RECURSIVE NextTag(_, _)
NextTag(t, from) ==
    IF FindFrom(t, "<", from) = 0 THEN <<0, 0>>
    ELSE IF FindFrom(t, ">", FindFrom(t, "<", from) + 1) = 0 THEN <<0, 0>>
    ELSE IF FindFrom(t, ">", FindFrom(t, "<", from) + 1) = FindFrom(t, "<", from) + 1
    THEN NextTag(t, FindFrom(t, "<", from) + 2)
    ELSE <<FindFrom(t, "<", from), FindFrom(t, ">", FindFrom(t, "<", from) + 1)>>

\* One match of the substitution: the stretch before it is kept.
strip_step(t, st, tag) ==
    IF tag[1] = 0
    THEN [i |-> Len(t) + 1, kept |-> Append(st.kept, SubSeq(t, st.i, Len(t)))]
    ELSE [i |-> tag[2] + 1, kept |-> Append(st.kept, SubSeq(t, st.i, tag[1] - 1))]

RECURSIVE strip_scan(_, _, _)
strip_scan(t, st, fuel) ==
    IF st.i > Len(t) \/ fuel = 0 THEN st
    ELSE IF fuel = 1 THEN strip_step(t, st, NextTag(t, st.i))
    ELSE LET half == strip_scan(t, st, fuel \div 2)
         IN IF half.i > Len(t) THEN half ELSE strip_scan(t, half, fuel - fuel \div 2)

\* Every match ends at a ">" of its own.
strip_tags(t) ==
    JoinWith(strip_scan(t, [i |-> 1, kept |-> <<>>], Count(t, {">"}) + 1).kept, "")

\* html.unescape(s) for the character references html.escape writes, which
\* are the ones the rendered texts hold: each stands for one character.
ENTITIES == {"&amp;", "&lt;", "&gt;", "&quot;", "&#x27;"}

unescaped_length(s) ==
    Len(s) - Cardinality({p \in {i \in 1..Len(s) : ch(s, i) = "&"} \X (1..5) :
                             \E e \in ENTITIES : StartsAt(s, p[1], e) /\ p[2] < Len(e)})

\* _visible_length
visible_length(text) ==
    IF text = "" THEN 0 ELSE unescaped_length(strip_tags(br_to_newline(text, 1)))

\* _clean_review: one line of the loop over the stripped lines; st.k is the
\* index of the line.
clean_line(st, line) ==
    [k |-> st.k + 1,
     cleaned |-> IF line # "" THEN Append(st.cleaned, line)
                 ELSE IF st.cleaned # <<>> /\ st.cleaned[Len(st.cleaned)] # ""
                 THEN Append(st.cleaned, "")
                 ELSE st.cleaned]

RECURSIVE clean_scan(_, _, _)
clean_scan(lines, st, fuel) ==
    IF st.k > Len(lines) \/ fuel = 0 THEN st
    ELSE IF fuel = 1 THEN clean_line(st, Strip(lines[st.k]))
    ELSE LET half == clean_scan(lines, st, fuel \div 2)
         IN IF half.k > Len(lines) THEN half ELSE clean_scan(lines, half, fuel - fuel \div 2)

clean_lines(lines) == clean_scan(lines, [k |-> 1, cleaned |-> <<>>], Len(lines)).cleaned

clean_review(text) == Strip(JoinWith(clean_lines(splitlines(text)), "\n"))

\* _smart_trim, from its last statement back to its first.
smart_trim_mark(best) ==
    IF best = "" THEN ""
    ELSE IF \E k \in 1..Len(SENTENCE_ENDINGS) : EndsWith(best, SENTENCE_ENDINGS[k]) THEN best
    ELSE RStripChars(best, {ELLIPSIS}) \o ELLIPSIS

\* best = best.rstrip("-•")
smart_trim_tail(best) == smart_trim_mark(RStripChars(best, {"-", BULLET}))

\* if not best: best = truncated.strip()
smart_trim_whole(best, truncated) ==
    smart_trim_tail(IF best = "" THEN Strip(truncated) ELSE best)

\* if not best: cut at the last space
smart_trim_space(best, truncated) ==
    smart_trim_whole(IF best = "" /\ RFind(truncated, " ") # 0
                     THEN Strip(SubSeq(truncated, 1, RFind(truncated, " ") - 1))
                     ELSE best,
                     truncated)

\* if not best: cut at the last line break, if it is at 30% of limit or later
smart_trim_newline(best, truncated, limit) ==
    smart_trim_space(IF /\ best = ""
                        /\ RFind(truncated, "\n") # 0
                        /\ RFind(truncated, "\n") - 1 >= (limit * 3) \div 10
                     THEN Strip(SubSeq(truncated, 1, RFind(truncated, "\n") - 1))
                     ELSE best,
                     truncated)

\* The sentence endings whose last occurrence is at 40% of limit or later,
\* in the order of _SENTENCE_ENDINGS.
sentence_cuts(truncated, limit) ==
    SelectSeq(SENTENCE_ENDINGS,
              LAMBDA e : /\ RFind(truncated, e) # 0
                         /\ RFind(truncated, e) - 1 >= (limit * 4) \div 10)

smart_trim_sentence(truncated, limit) ==
    smart_trim_newline(IF sentence_cuts(truncated, limit) = <<>> THEN ""
                       ELSE Strip(SubSeq(truncated, 1,
                                         RFind(truncated, sentence_cuts(truncated, limit)[1]))),
                       truncated, limit)

smart_trim_stripped(text, limit) ==
    IF Len(text) <= limit THEN text
    ELSE smart_trim_sentence(RStripChars(SubSeq(text, 1, limit), Whitespace), limit)

smart_trim(text, limit) == IF limit <= 0 THEN "" ELSE smart_trim_stripped(Strip(text), limit)

\* _join_blocks
join_blocks(blocks) ==
    JoinWith([k \in 1..Len(SelectSeq(blocks, LAMBDA b : Strip(b) # "")) |->
                 Strip(SelectSeq(blocks, LAMBDA b : Strip(b) # "")[k])], "\n\n")

\* _append_block
append_block(base, block) ==
    IF Strip(base) = "" THEN Strip(block)
    ELSE IF Strip(block) = "" THEN Strip(base)
    ELSE Strip(base) \o "\n\n" \o Strip(block)

\* _normalize_for_compare
normalize_for_compare(value) == Lower(normalize_spaces(value))

\* _strip_markdown_heading, from its last statement back to its first.
strip_underscore(text) ==
    Strip(IF StartsWith(text, "_") /\ EndsWith(text, "_") /\ Len(text) > 2
          THEN SubSeq(text, 2, Len(text) - 1) ELSE text)

strip_asterisk(text) ==
    strip_underscore(IF StartsWith(text, "*") /\ EndsWith(text, "*") /\ Len(text) > 2
                     THEN SubSeq(text, 2, Len(text) - 1) ELSE text)

strip_bold(text) ==
    strip_asterisk(IF StartsWith(text, "**") /\ EndsWith(text, "**") /\ Len(text) > 4
                   THEN SubSeq(text, 3, Len(text) - 2)
                   ELSE IF StartsWith(text, "__") /\ EndsWith(text, "__") /\ Len(text) > 4
                   THEN SubSeq(text, 3, Len(text) - 2)
                   ELSE text)

\* re.sub(r"^#+\s*", "", text)
strip_hashes(text) ==
    IF StartsWith(text, "#")
    THEN SubSeq(text, FirstNotIn(text, FirstNotIn(text, 1, {"#"}), Whitespace), Len(text))
    ELSE text

strip_markdown_heading(text) == strip_bold(strip_hashes(Strip(text)))

\* The line text of a title: what _drop_leading_title compares with title_norm.
heading_norm(line) == normalize_for_compare(strip_markdown_heading(line))

\* drop_leading_blanks of _drop_leading_title
RECURSIVE drop_leading_blanks(_)
drop_leading_blanks(buf) ==
    IF buf # <<>> /\ Strip(Head(buf)) = "" THEN drop_leading_blanks(Tail(buf)) ELSE buf

\* The while loop of _drop_leading_title.
RECURSIVE drop_title_lines(_, _)
drop_title_lines(remaining, title_norm) ==
    IF remaining = <<>> THEN remaining
    ELSE IF heading_norm(Head(remaining)) # title_norm THEN remaining
    ELSE drop_title_lines(drop_leading_blanks(Tail(remaining)), title_norm)

\* _drop_leading_title, given lines = review.splitlines() and title_norm;
\* first_idx is the first line that is not blank, if it is the title.
drop_leading_title_lines(review, lines, title_norm) ==
    IF /\ drop_leading_blanks(lines) # <<>>
       /\ heading_norm(Head(drop_leading_blanks(lines))) = title_norm
    THEN Strip(JoinWith(drop_title_lines(drop_leading_blanks(Tail(drop_leading_blanks(lines))),
                                         title_norm), "\n"))
    ELSE Strip(review)

drop_leading_title(review, title) ==
    IF Strip(review) = "" THEN Strip(review)
    ELSE drop_leading_title_lines(review, splitlines(review), normalize_for_compare(title))

\* text_cleanup._STRIPPABLE_MARKERS (those of its characters that are ASCII)
STRIPPABLE_MARKERS == {"*", "_", BACKTICK, "~", "'", "\"", "(", ")", "[", "]", "{", "}"}

\* re.sub(r"^[\-...:*]+\s*", "", normalized)
strip_leading_dashes(text) ==
    IF text # "" /\ ch(text, 1) \in {"-", BULLET, ":", "*"}
    THEN SubSeq(text,
                FirstNotIn(text, FirstNotIn(text, 1, {"-", BULLET, ":", "*"}), Whitespace),
                Len(text))
    ELSE text

\* text_cleanup._normalize_text_for_compare
normalize_text_for_compare(text) ==
    Lower(strip_leading_dashes(StripChars(normalize_spaces(text), STRIPPABLE_MARKERS)))

\* \b\d{1,2}\s+(month)\s+\d{4}\b found in normalized
ua_date_search(normalized) ==
    \E i \in 1..Len(normalized) :
        /\ ch(normalized, i) \in Digits
        /\ Boundary(normalized, i)
        /\ \E j \in Digits12End(normalized, i) : \E k \in SpacesEnd(normalized, j) :
               \E m \in MONTHS :
                   /\ LiteralAt(normalized, k, m)
                   /\ \E y \in SpacesEnd(normalized, k + Len(m)) :
                          DigitsAt(normalized, y, 4) /\ Boundary(normalized, y + 4)

\* text_cleanup._looks_like_ua_date
looks_like_ua_date(text) == ua_date_search(normalize_text_for_compare(text))

\* text_cleanup._looks_like_person_intro
person_intro(stripped) ==
    /\ FindFrom(stripped, ":", 1) # 0
    /\ FindFrom(stripped, ":", 1) - 1 <= 100
    /\ FindFrom(stripped, ":", 1) - 1 >= 3
    /\ Strip(SubSeq(stripped, 1, FindFrom(stripped, ":", 1) - 1)) # ""
    /\ ch(Strip(SubSeq(stripped, 1, FindFrom(stripped, ":", 1) - 1)), 1) \in UpperCase

looks_like_person_intro(text) == person_intro(Strip(text))

\* The tests of strip_redundant_preamble on a line of the header: TRUE when
\* the line is skipped.
suffix_is_empty(normalized_line, normalized_title) ==
    StripChars(SubSeq(normalized_line, Len(normalized_title) + 1, Len(normalized_line)),
               {" ", ".", ",", ":", ";", "!", "?", "-"}) = ""

repeats_title(normalized_line, normalized_title) ==
    /\ normalized_title # ""
    /\ \/ normalized_line = normalized_title
       \/ /\ StartsWith(normalized_line, normalized_title)
          /\ suffix_is_empty(normalized_line, normalized_title)

is_header_line(stripped_line, normalized_line, normalized_title) ==
    \/ repeats_title(normalized_line, normalized_title)
    \/ looks_like_ua_date(stripped_line)
    \/ looks_like_ua_date(normalized_line)
    \/ looks_like_person_intro(stripped_line)

\* One line of the loop of strip_redundant_preamble: lines are dropped up
\* to the first line of content and stripped from there on; st.k is the
\* index of the line.
preamble_line(st, stripped_line, normalized_title) ==
    IF ~st.removing_header
    THEN [st EXCEPT !.k = @ + 1, !.cleaned = Append(@, stripped_line)]
    ELSE IF stripped_line = "" THEN [st EXCEPT !.k = @ + 1]
    ELSE IF is_header_line(stripped_line, normalize_text_for_compare(stripped_line),
                           normalized_title)
    THEN [st EXCEPT !.k = @ + 1]
    ELSE [k |-> st.k + 1, cleaned |-> Append(st.cleaned, stripped_line),
          removing_header |-> FALSE]

RECURSIVE preamble_scan(_, _, _, _)
preamble_scan(lines, st, normalized_title, fuel) ==
    IF st.k > Len(lines) \/ fuel = 0 THEN st
    ELSE IF fuel = 1 THEN preamble_line(st, Strip(lines[st.k]), normalized_title)
    ELSE LET half == preamble_scan(lines, st, normalized_title, fuel \div 2)
         IN IF half.k > Len(lines) THEN half
            ELSE preamble_scan(lines, half, normalized_title, fuel - fuel \div 2)

preamble_lines(lines, normalized_title) ==
    preamble_scan(lines, [k |-> 1, cleaned |-> <<>>, removing_header |-> TRUE],
                  normalized_title, Len(lines)).cleaned

\* text_cleanup.strip_redundant_preamble
strip_redundant_preamble(text, title) ==
    IF Strip(text) = "" THEN ""
    ELSE Strip(JoinWith(preamble_lines(splitlines(text), normalize_text_for_compare(title)),
                        "\n"))

\* _format_inline.  st.i is the index of the loop, st.from the index of the
\* first character held in "plain", st.result the list "result".
Emit(st, text, piece, next) ==
    [i |-> next, from |-> next,
     result |-> Append(IF st.from < st.i
                       THEN Append(st.result, escape_text(SubSeq(text, st.from, st.i - 1)))
                       ELSE st.result,
                       piece)]

\* plain.append(text[i]); i += 1, for the characters up to the next one that
\* can start a construct
Plain(st, text) ==
    [st EXCEPT !.i = IF ch(text, st.i) \in {"*", "_", BACKTICK, "["} THEN st.i + 1
                     ELSE IF FirstIn(text, st.i, {"*", "_", BACKTICK, "["}) = 0 THEN Len(text) + 1
                     ELSE FirstIn(text, st.i, {"*", "_", BACKTICK, "["})]

\* An underscore at i that closes at "end": plain inside a word.
InWord(text, i, end) ==
    \/ i > 1 /\ ch(text, i - 1) \in AlphaNum
    \/ end + 1 <= Len(text) /\ ch(text, end + 1) \in AlphaNum

RECURSIVE format_inline(_), format_step(_, _), format_scan(_, _, _)
format_step(text, st) ==
    IF StartsAt(text, st.i, "**") /\ FindFrom(text, "**", st.i + 2) # 0
    THEN Emit(st, text,
              "<b>" \o format_inline(SubSeq(text, st.i + 2, FindFrom(text, "**", st.i + 2) - 1))
                    \o "</b>",
              FindFrom(text, "**", st.i + 2) + 2)
    ELSE IF StartsAt(text, st.i, "__") /\ FindFrom(text, "__", st.i + 2) # 0
    THEN Emit(st, text,
              "<b>" \o format_inline(SubSeq(text, st.i + 2, FindFrom(text, "__", st.i + 2) - 1))
                    \o "</b>",
              FindFrom(text, "__", st.i + 2) + 2)
    ELSE IF /\ ch(text, st.i) = "*" /\ st.i + 1 <= Len(text) /\ ch(text, st.i + 1) # " "
            /\ FindFrom(text, "*", st.i + 1) # 0
    THEN Emit(st, text,
              "<i>" \o format_inline(SubSeq(text, st.i + 1, FindFrom(text, "*", st.i + 1) - 1))
                    \o "</i>",
              FindFrom(text, "*", st.i + 1) + 1)
    ELSE IF /\ ch(text, st.i) = "_" /\ st.i + 1 <= Len(text) /\ ch(text, st.i + 1) # " "
            /\ FindFrom(text, "_", st.i + 1) # 0
    THEN IF InWord(text, st.i, FindFrom(text, "_", st.i + 1)) THEN Plain(st, text)
         ELSE Emit(st, text,
                   "<i>" \o format_inline(SubSeq(text, st.i + 1,
                                                 FindFrom(text, "_", st.i + 1) - 1))
                         \o "</i>",
                   FindFrom(text, "_", st.i + 1) + 1)
    ELSE IF ch(text, st.i) = BACKTICK /\ FindFrom(text, BACKTICK, st.i + 1) # 0
    THEN Emit(st, text,
              "<code>" \o escape_text(SubSeq(text, st.i + 1, FindFrom(text, BACKTICK, st.i + 1) - 1))
                       \o "</code>",
              FindFrom(text, BACKTICK, st.i + 1) + 1)
    ELSE IF /\ ch(text, st.i) = "["
            /\ FindFrom(text, "]", st.i + 1) # 0
            /\ StartsAt(text, FindFrom(text, "]", st.i + 1) + 1, "(")
            /\ FindFrom(text, ")", FindFrom(text, "]", st.i + 1) + 2) # 0
    THEN Emit(st, text,
              "<a href=\""
                  \o escape_attr(SubSeq(text, FindFrom(text, "]", st.i + 1) + 2,
                                        FindFrom(text, ")", FindFrom(text, "]", st.i + 1) + 2) - 1))
                  \o "\">"
                  \o format_inline(SubSeq(text, st.i + 1, FindFrom(text, "]", st.i + 1) - 1))
                  \o "</a>",
              FindFrom(text, ")", FindFrom(text, "]", st.i + 1) + 2) + 1)
    ELSE Plain(st, text)

format_scan(text, st, fuel) ==
    IF st.i > Len(text) \/ fuel = 0 THEN st
    ELSE IF fuel = 1 THEN format_step(text, st)
    ELSE LET half == format_scan(text, st, fuel \div 2)
         IN IF half.i > Len(text) THEN half ELSE format_scan(text, half, fuel - fuel \div 2)

\* flush_plain() and "".join(result) at the end of _format_inline
format_join(text, st) ==
    JoinWith(IF st.from <= Len(text)
             THEN Append(st.result, escape_text(SubSeq(text, st.from, Len(text))))
             ELSE st.result, "")

\* A pass of the loop takes a construct, which starts with one of the four
\* characters, or one of them as plain text, or the plain text up to the next.
format_inline(text) ==
    format_join(text, format_scan(text, [i |-> 1, from |-> 1, result |-> <<>>],
                                  2 * Count(text, {"*", "_", BACKTICK, "["}) + 1))

\* _flush_list: every entry of a buffer has a marker.
flush_list(buffer, result) ==
    result \o [k \in 1..Len(buffer) |-> buffer[k][1] \o " " \o buffer[k][2]]

\* re.match(r"(\d+)[\.)]\s+(.*)", stripped): the index of group 2, 0 when
\* the line does not match.
number_match(stripped) ==
    IF /\ stripped # "" /\ ch(stripped, 1) \in Digits
       /\ FirstNotIn(stripped, 1, Digits) <= Len(stripped)
       /\ ch(stripped, FirstNotIn(stripped, 1, Digits)) \in {".", ")"}
       /\ FirstNotIn(stripped, 1, Digits) + 1 <= Len(stripped)
       /\ ch(stripped, FirstNotIn(stripped, 1, Digits) + 1) \in Whitespace
    THEN FirstNotIn(stripped, FirstNotIn(stripped, 1, Digits) + 1, Whitespace)
    ELSE 0

\* re.match(r"#{1,6}\s+(.*)", stripped): the index of group 1, 0 when the
\* line does not match.
heading_match(stripped) ==
    IF /\ StartsWith(stripped, "#")
       /\ FirstNotIn(stripped, 1, {"#"}) <= 7
       /\ FirstNotIn(stripped, 1, {"#"}) <= Len(stripped)
       /\ ch(stripped, FirstNotIn(stripped, 1, {"#"})) \in Whitespace
    THEN FirstNotIn(stripped, FirstNotIn(stripped, 1, {"#"}), Whitespace)
    ELSE 0

\* What the loop of _markdown_to_telegram_html reads off a stripped line:
\* the kind of the line, the marker of a list item and the rendered content.
\* Neither depends on the lines before it.
markdown_entry(stripped) ==
    IF stripped = "" THEN [kind |-> "blank", marker |-> "", content |-> ""]
    ELSE IF StartsWith(stripped, "- ") \/ StartsWith(stripped, "* ")
    THEN [kind |-> "bullet", marker |-> BULLET,
          content |-> format_inline(Strip(SubSeq(stripped, 3, Len(stripped))))]
    ELSE IF number_match(stripped) # 0
    THEN [kind |-> "number",
          marker |-> SubSeq(stripped, 1, FirstNotIn(stripped, 1, Digits) - 1) \o ".",
          content |-> format_inline(Strip(SubSeq(stripped, number_match(stripped),
                                                 Len(stripped))))]
    ELSE IF heading_match(stripped) # 0
    THEN [kind |-> "heading", marker |-> "",
          content |-> "<b>" \o format_inline(Strip(SubSeq(stripped, heading_match(stripped),
                                                          Len(stripped))))
                          \o "</b>"]
    ELSE [kind |-> "text", marker |-> "", content |-> format_inline(stripped)]

markdown_entries(lines) ==
    SubSeq([k \in 1..Len(lines) |-> markdown_entry(Strip(lines[k]))], 1, Len(lines))

\* One line of the loop of _markdown_to_telegram_html; st.k is the index of
\* the line.
Flushed(st) ==
    [k |-> st.k,
     result |-> flush_list(st.numbers, flush_list(st.bullets, st.result)),
     bullets |-> <<>>, numbers |-> <<>>]

markdown_line(st, entry) ==
    IF entry.kind = "blank"
    THEN [Flushed(st) EXCEPT !.k = @ + 1,
                             !.result = IF @ # <<>> /\ @[Len(@)] # "" THEN Append(@, "") ELSE @]
    ELSE IF entry.kind = "bullet"
    THEN [k |-> st.k + 1,
          result |-> flush_list(st.numbers, st.result),
          bullets |-> Append(st.bullets, <<entry.marker, entry.content>>),
          numbers |-> <<>>]
    ELSE IF entry.kind = "number"
    THEN [k |-> st.k + 1,
          result |-> flush_list(st.bullets, st.result),
          bullets |-> <<>>,
          numbers |-> Append(st.numbers, <<entry.marker, entry.content>>)]
    ELSE [Flushed(st) EXCEPT !.k = @ + 1, !.result = Append(@, entry.content)]

RECURSIVE markdown_scan(_, _, _)
markdown_scan(entries, st, fuel) ==
    IF st.k > Len(entries) \/ fuel = 0 THEN st
    ELSE IF fuel = 1 THEN markdown_line(st, entries[st.k])
    ELSE LET half == markdown_scan(entries, st, fuel \div 2)
         IN IF half.k > Len(entries) THEN half
            ELSE markdown_scan(entries, half, fuel - fuel \div 2)

markdown_lines(lines) ==
    Flushed(markdown_scan(markdown_entries(lines),
                          [k |-> 1, result |-> <<>>, bullets |-> <<>>, numbers |-> <<>>],
                          Len(lines))).result

\* _markdown_to_telegram_html
markdown_to_telegram_html(markdown) ==
    IF Strip(markdown) = "" THEN ""
    ELSE Strip(JoinWith(markdown_lines(splitlines(markdown)), "\n"))

\* _truncate_html_preserving_tags.  The list "result" of the loop always
\* holds text[:i]; st.i is the index of the loop, st.stop a break.
tag_name_of(tag_body) ==
    IF StartsWith(tag_body, "/")
    THEN IF Len(tag_body) = 1 THEN "" ELSE Lower(split(SubSeq(tag_body, 2, Len(tag_body)))[1])
    ELSE Lower(split(tag_body)[1])

tags_after(open_tags, tag_body, tag_name) ==
    IF tag_body = "" THEN open_tags
    ELSE IF StartsWith(tag_body, "/")
    THEN IF open_tags # <<>> /\ open_tags[Len(open_tags)] = tag_name
         THEN SubSeq(open_tags, 1, Len(open_tags) - 1) ELSE open_tags
    ELSE IF ~(EndsWith(tag_body, "/") \/ tag_name \in VOID_TAGS) /\ tag_name # ""
    THEN Append(open_tags, tag_name)
    ELSE open_tags

truncate_tag(text, st, close_idx, tag_body) ==
    [st EXCEPT !.i = close_idx + 1,
               !.open_tags = tags_after(@, tag_body,
                                        IF tag_body = "" THEN "" ELSE tag_name_of(tag_body))]

\* The plain characters from st.i on, as many as the target leaves room for.
truncate_plain(text, st, target, run_end) ==
    [st EXCEPT !.i = Min(run_end, st.i + (target - st.visible_count)),
               !.visible_count = @ + (Min(run_end, st.i + (target - st.visible_count)) - st.i)]

truncate_step(text, st, target) ==
    IF ch(text, st.i) = "<"
    THEN IF FindFrom(text, ">", st.i) = 0 THEN [st EXCEPT !.stop = TRUE]
         ELSE truncate_tag(text, st, FindFrom(text, ">", st.i),
                           Strip(SubSeq(text, st.i + 1, FindFrom(text, ">", st.i) - 1)))
    ELSE IF ch(text, st.i) = "&"
    THEN IF st.visible_count + 1 > target THEN [st EXCEPT !.stop = TRUE]
         ELSE IF FindFrom(text, ";", st.i + 1) = 0
         THEN [st EXCEPT !.i = @ + 1, !.visible_count = @ + 1]
         ELSE [st EXCEPT !.i = FindFrom(text, ";", st.i + 1) + 1, !.visible_count = @ + 1]
    ELSE IF st.visible_count + 1 > target THEN [st EXCEPT !.stop = TRUE]
    ELSE truncate_plain(text, st, target,
                        IF FirstIn(text, st.i, {"<", "&"}) = 0 THEN Len(text) + 1
                        ELSE FirstIn(text, st.i, {"<", "&"}))

RECURSIVE truncate_scan(_, _, _, _)
truncate_scan(text, st, target, fuel) ==
    IF st.stop \/ st.i > Len(text) \/ st.visible_count >= target \/ fuel = 0 THEN st
    ELSE IF fuel = 1 THEN truncate_step(text, st, target)
    ELSE LET half == truncate_scan(text, st, target, fuel \div 2)
         IN IF half.stop \/ half.i > Len(text) \/ half.visible_count >= target THEN half
            ELSE truncate_scan(text, half, target, fuel - fuel \div 2)

\* for tag in reversed(open_tags): truncated += f"</{tag}>"
RECURSIVE close_tags(_)
close_tags(open_tags) ==
    IF open_tags = <<>> THEN ""
    ELSE "</" \o open_tags[Len(open_tags)] \o ">"
         \o close_tags(SubSeq(open_tags, 1, Len(open_tags) - 1))

\* The ellipsis is added unless the text ends with one.
truncate_mark(truncated) ==
    IF EndsWith(truncated, ELLIPSIS) THEN truncated
    ELSE RStripChars(truncated, Whitespace) \o ELLIPSIS

\* A mutation of the closing loop: no open tag is closed.
truncate_close_none(truncated, open_tags) == truncate_mark(truncated)

truncate_close(truncated, open_tags) == truncate_mark(truncated) \o close_tags(open_tags)

RECURSIVE truncate_html_preserving_tags(_, _)
truncate_cut(st, text, visible_target) ==
    truncate_close(IF /\ visible_target > 0
                      /\ visible_length(RStripChars(SubSeq(text, 1, st.i - 1), Whitespace))
                             > visible_target
                   THEN truncate_html_preserving_tags(
                            RStripChars(SubSeq(text, 1, st.i - 1), Whitespace), visible_target)
                   ELSE RStripChars(SubSeq(text, 1, st.i - 1), Whitespace),
                   st.open_tags)

truncate_html_preserving_tags(text, limit) ==
    IF limit <= 0 THEN ""
    ELSE IF visible_length(text) <= limit THEN text
    ELSE truncate_cut(truncate_scan(text,
                                    [i |-> 1, visible_count |-> 0, open_tags |-> <<>>,
                                     stop |-> FALSE],
                                    Max(limit - 1, 0), 2 * Count(text, {"<", "&"}) + 1),
                      text, Max(limit - 1, 0))

\* _truncate_before_subscribe, from its last statement back to its first.
truncate_again(truncated_main, subscribe_block, total_limit) ==
    IF visible_length(append_block(truncated_main, subscribe_block)) <= total_limit
    THEN append_block(truncated_main, subscribe_block)
    ELSE truncate_html_preserving_tags(subscribe_block, total_limit)

truncate_main(truncated_main, subscribe_block, total_limit, available_for_main) ==
    IF visible_length(append_block(truncated_main, subscribe_block)) <= total_limit
    THEN append_block(truncated_main, subscribe_block)
    ELSE truncate_again(
             truncate_html_preserving_tags(
                 truncated_main,
                 Max(available_for_main
                         - (visible_length(append_block(truncated_main, subscribe_block))
                                - total_limit),
                     0)),
             subscribe_block, total_limit)

truncate_available(main, subscribe_block, total_limit, available_for_main) ==
    IF available_for_main < 0 THEN truncate_html_preserving_tags(subscribe_block, total_limit)
    ELSE truncate_main(truncate_html_preserving_tags(main, available_for_main),
                       subscribe_block, total_limit, available_for_main)

\* A mutation of _truncate_before_subscribe: the text is cut as a whole,
\* promo block included.
truncate_before_subscribe_whole(main_text, subscribe_block, total_limit) ==
    truncate_html_preserving_tags(append_block(main_text, subscribe_block), total_limit)

\* A mutation of _truncate_before_subscribe: the main text is not cut.
truncate_before_subscribe_uncut(main_text, subscribe_block, total_limit) ==
    append_block(main_text, subscribe_block)

truncate_before_subscribe(main_text, subscribe_block, total_limit) ==
    IF Strip(subscribe_block) = "" THEN truncate_html_preserving_tags(main_text, total_limit)
    ELSE IF Strip(main_text) = "" THEN truncate_html_preserving_tags(subscribe_block, total_limit)
    ELSE truncate_available(Strip(main_text), subscribe_block, total_limit,
                            total_limit - visible_length(Strip(subscribe_block)) - 2)

\* The lines build_preview_variants puts around the review.
header_of(title) == "<b>" \o escape_text(Strip(title)) \o "</b>"

link_line_of(link_url) == "<a href=\"" \o escape_attr(link_url) \o "\">" \o READ_MORE \o "</a>"

tags_line_of(tags) == escape_text(Strip(tags))

subscribe_block ==
    "<a href=\"" \o escape_attr(SUBSCRIBE_PROMO_URL) \o "\">"
        \o "<b>" \o escape_text(SUBSCRIBE_PROMO_TEXT) \o "</b>" \o "</a>"

\* review_without_title
review_without_title(title, review_md) ==
    drop_leading_title(strip_redundant_preamble(clean_review(review_md), title), title)

\* header, link_line and tags_line of build_preview_variants
preview_lines(title, link_url, tags) ==
    [header |-> header_of(title), link_line |-> link_line_of(link_url),
     tags_line |-> tags_line_of(tags)]

\* available_for_review_with_image / _without_image
available_for_review(total_limit, lines) ==
    total_limit
        - visible_length(append_block(join_blocks(<<lines.header, lines.link_line,
                                                    lines.tags_line>>),
                                      subscribe_block))
        - 2

\* text_candidate of build_variant for the given tags
candidate(header, review_candidate_html, link_line, candidate_tags) ==
    append_block(join_blocks(<<header, review_candidate_html, link_line, candidate_tags>>),
                 subscribe_block)

\* What build_variant returns, or the limit of its next pass.
Returned(text, path) == [returned |-> TRUE, text |-> text, path |-> path, limit |-> 0]

\* One pass of the loop over tags_tokens of build_variant: tags_tokens.pop()
\* leaves st.left tokens, st.found tells that the candidate with them fits.
pop_token(header, review_candidate_html, link_line, tags_tokens, left, total_limit) ==
    [left |-> left,
     found |-> visible_length(candidate(header, review_candidate_html, link_line,
                                        JoinWith(SubSeq(tags_tokens, 1, left), " ")))
                   <= total_limit]

RECURSIVE pop_scan(_, _, _, _, _, _, _)
pop_scan(header, review_candidate_html, link_line, tags_tokens, st, total_limit, fuel) ==
    IF st.found \/ st.left = 0 \/ fuel = 0 THEN st
    ELSE IF fuel = 1
    THEN pop_token(header, review_candidate_html, link_line, tags_tokens, st.left - 1,
                   total_limit)
    ELSE LET half == pop_scan(header, review_candidate_html, link_line, tags_tokens, st,
                              total_limit, fuel \div 2)
         IN IF half.found \/ half.left = 0 THEN half
            ELSE pop_scan(header, review_candidate_html, link_line, tags_tokens, half,
                          total_limit, fuel - fuel \div 2)

\* After the loop: the candidate that fitted, else the candidate without
\* tags if it fits, else the main text is cut.
tags_dropped(header, review_candidate_html, link_line, tags_tokens, st, total_limit) ==
    IF st.found
    THEN Returned(candidate(header, review_candidate_html, link_line,
                            JoinWith(SubSeq(tags_tokens, 1, st.left), " ")),
                  IF st.left = 0 THEN "tags_removed" ELSE "tags_dropped")
    ELSE IF visible_length(candidate(header, review_candidate_html, link_line, ""))
                <= total_limit
    THEN Returned(candidate(header, review_candidate_html, link_line, ""), "tags_removed")
    ELSE Returned(truncate_before_subscribe(
                      join_blocks(<<header, review_candidate_html, link_line>>),
                      subscribe_block, total_limit),
                  "truncated")

drop_tags(header, review_candidate_html, link_line, tags_tokens, total_limit) ==
    tags_dropped(header, review_candidate_html, link_line, tags_tokens,
                 pop_scan(header, review_candidate_html, link_line, tags_tokens,
                          [left |-> Len(tags_tokens), found |-> FALSE], total_limit,
                          Len(tags_tokens)),
                 total_limit)

\* build_variant with limit <= 0 and a candidate that does not fit
variant_degrade(header, review_candidate_html, link_line, tags_line, total_limit) ==
    IF tags_line # ""
    THEN drop_tags(header, review_candidate_html, link_line, split(tags_line), total_limit)
    ELSE Returned(truncate_before_subscribe(
                      join_blocks(<<header, review_candidate_html, link_line>>),
                      subscribe_block, total_limit),
                  "truncated")

\* The decision of a pass that leaves the limit as it is when the candidate
\* does not fit.
variant_decide_limit_kept(candidate_length, text_candidate, header, review_candidate_html, link_line, tags_line, limit, total_limit) ==
    IF candidate_length <= total_limit THEN Returned(text_candidate, "fits")
    ELSE IF limit > 0 THEN [returned |-> FALSE, text |-> "", path |-> "", limit |-> limit]
    ELSE variant_degrade(header, review_candidate_html, link_line, tags_line, total_limit)

\* The decision of a pass that gives up tags as soon as the candidate does
\* not fit, whatever the limit.
variant_decide_tags_first(candidate_length, text_candidate, header, review_candidate_html, link_line, tags_line, limit, total_limit) ==
    IF candidate_length <= total_limit THEN Returned(text_candidate, "fits")
    ELSE variant_degrade(header, review_candidate_html, link_line, tags_line, total_limit)

\* The decision of a pass of the loop of build_variant, from candidate_length on.
variant_decide(candidate_length, text_candidate, header, review_candidate_html, link_line, tags_line, limit, total_limit) ==
    IF candidate_length <= total_limit THEN Returned(text_candidate, "fits")
    ELSE IF limit > 0
    THEN [returned |-> FALSE, text |-> "", path |-> "",
          limit |-> Max(limit - Max(candidate_length - total_limit, 1), 0)]
    ELSE variant_degrade(header, review_candidate_html, link_line, tags_line, total_limit)

(***************************************************************************)
(* Inputs handed to build_preview_variants                                 *)
(***************************************************************************)

\* The lengths of the titles that do not fit a caption: with the link line
\* and the promo block such a title leaves room for short tags only, for no
\* tags, for part of the link text, for part of the title.
TitleTagsFit == 975

TitleTagsGone == 980

TitleLinkCut == 990

TitleCut == 1010

\* The length of the title that does not fit a message either.
TitleHuge == 4150

\* The numbers of sentences of the long reviews and of tokens of the long tags.
ReviewSentences == 30

LongReviewSentences == 110

TagTokens == 100

ShortTitle == "Tax & audit: new <rules>"

LongTitle(n) == Slice(Rep("Podatky & zbory: novi 'pravyla' <2025>. ", n \div 40 + 1), n)

Titles ==
    {"", ShortTitle, LongTitle(TitleTagsFit), LongTitle(TitleTagsGone), LongTitle(TitleLinkCut),
     LongTitle(TitleCut), LongTitle(TitleHuge)}

\* A review that uses every inline construct and every kind of line.
MarkupReview ==
    "**Bold** and _it_ and $co<de>$ and [the *law*](https://zakon.ua/?a=1&b=\"2\")\n"
        \o "- item one\n* item __two__\n\n1. first\n2) second & last\n"
        \o "## Head **line**\nsnake_case_word, 2 * 3 and an [open bracket\n"
        \o "####### seven"

\* A review that opens with the title, a date and the title again as a heading.
PreambleReview ==
    "** Tax & audit: new <rules> **\n12 sichnia 2025\n\n# Tax & audit: new <rules>\n"
        \o "__Tax & audit: new <rules>__\n\nThe body starts here. It has two sentences."

\* Reviews that open with the title in bold or as a heading, then dates and
\* the title again.
PreambleDate == "12 sichnia 2025"

BoldReview ==
    "**Tax & audit: new <rules>**\n\n" \o PreambleDate \o "\nTax & audit: new <rules>\n\n"
        \o PreambleDate \o "\nTax & audit: new <rules>\n\nThe body starts here."

HeadedReview ==
    "# Tax & audit: new <rules>\n" \o PreambleDate \o "\nTax & audit: new <rules>\n\n"
        \o "The body starts here."

ReviewProse(n) == Strip(Rep("The service explained the **new** rules & terms for firms.\n", n))

\* A review in one word: _smart_trim finds no place to cut it.
SolidReview == Rep("x", WITH_IMAGE_LIMIT)

\* A review of markup without a blank: it is cut inside a construct.
DenseReview == Rep("**ab**_c_$d$[e](f)", LongReviewSentences)

Reviews ==
    {"", MarkupReview, PreambleReview, BoldReview, HeadedReview, ReviewProse(ReviewSentences),
     ReviewProse(LongReviewSentences), SolidReview, DenseReview}

ShortTags == "#tax #audit"

LongTags == Strip(Rep("#podatok<1> ", TagTokens))

TagLines == {"", ShortTags, LongTags}

Links == {"https://tax.gov.ua/news?id=1&ref=tg", ""}

\* The long titles come with the short reviews and the short tags.
PreviewInputs ==
    {input \in [title : Titles, review_md : Reviews, link_url : Links, tags : TagLines] :
        /\ Len(input.title) > Len(ShortTitle)
               => /\ input.review_md \in {"", PreambleReview}
                  /\ input.tags # LongTags
        /\ input.link_url = "" => input.review_md \in {"", MarkupReview}}

NoInput == [title |-> "", review_md |-> "", link_url |-> "", tags |-> ""]

NoVariants == [with_image |-> "", without_image |-> ""]

NoPass == [returned |-> FALSE, text |-> "", path |-> "", limit |-> 0]

NoLines == [header |-> "", link_line |-> "", tags_line |-> ""]

PreviewIdle ==
    /\ pPc = "idle"
    /\ pInput = NoInput
    /\ pLines = NoLines
    /\ pReview = ""
    /\ pLimit = 0
    /\ pReviewMd = ""
    /\ pReviewHtml = ""
    /\ pText = ""
    /\ pLength = 0
    /\ pPass = NoPass
    /\ pOut = NoVariants
    /\ pPath = NoVariants

\* total_limit of the variant in progress
TotalLimit(variant) ==
    IF variant = PREVIEW_WITH_IMAGE THEN WITH_IMAGE_LIMIT ELSE WITHOUT_IMAGE_LIMIT

\* limit = max(base_limit, 0) at the start of build_variant
BaseLimit(lines, variant) == Max(available_for_review(TotalLimit(variant), lines), 0)

\* build_preview_variants is called: what is computed before build_variant.
PreviewCall(input) ==
    /\ pPc = "idle"
    /\ pInput' = input
    /\ pLines' = preview_lines(input.title, input.link_url, input.tags)
    /\ pReview' = review_without_title(input.title, input.review_md)
    /\ pLimit' = BaseLimit(pLines', PREVIEW_WITH_IMAGE)
    /\ pPc' = PREVIEW_WITH_IMAGE
    /\ UNCHANGED <<pReviewMd, pReviewHtml, pText, pLength, pPass, pOut, pPath,
                   fetchVars, ingestVars, cycleVars, textVars, dateVars, botVars>>

\* The end of one pass of the loop of build_variant: the variant is
\* returned and the next one started, or the limit is lowered.
VariantPassed(pass) ==
    IF pass.returned
    THEN /\ pOut' = [pOut EXCEPT ![pPc] = pass.text]
         /\ pPath' = [pPath EXCEPT ![pPc] = pass.path]
         /\ pPc' = IF pPc = PREVIEW_WITH_IMAGE THEN PREVIEW_WITHOUT_IMAGE ELSE "returned"
         /\ pLimit' = IF pPc = PREVIEW_WITH_IMAGE
                      THEN BaseLimit(pLines, PREVIEW_WITHOUT_IMAGE) ELSE 0
    ELSE /\ pLimit' = pass.limit
         /\ UNCHANGED <<pOut, pPath, pPc>>

\* One pass of the "while True" loop of build_variant: review_candidate_md,
\* review_candidate_html, text_candidate, then the decision.
BuildVariant ==
    /\ pPc \in {PREVIEW_WITH_IMAGE, PREVIEW_WITHOUT_IMAGE}
    /\ pReviewMd' = smart_trim(pReview, pLimit)
    /\ pReviewHtml' = markdown_to_telegram_html(pReviewMd')
    /\ pText' = candidate(pLines.header, pReviewHtml', pLines.link_line, pLines.tags_line)
    /\ pLength' = visible_length(pText')
    /\ pPass' = variant_decide(pLength', pText', pLines.header, pReviewHtml', pLines.link_line,
                               pLines.tags_line, pLimit, TotalLimit(pPc))
    /\ VariantPassed(pPass')
    /\ UNCHANGED <<pInput, pLines, pReview, fetchVars, ingestVars, cycleVars, textVars,
                   dateVars, botVars>>

(***************************************************************************)
(* services/ukrainian_dates.py : parse_ukrainian_date                      *)
(*                                                                         *)
(* A datetime is a record of its fields, its tzinfo and its fold.  tzinfo  *)
(* is NoTz for a naive datetime, KYIV_TZ for ZoneInfo("Europe/Kyiv"), or a *)
(* fixed offset from UTC in minutes.  Months are written in Latin          *)
(* transliteration, "год" as "hod", "сьогодні" as "sohodni", "вчора" as    *)
(* "vchora", "року" as "roku", "р" as "r", "о" as "o".                     *)
(***************************************************************************)

NoTz == [zone |-> "naive", minutes |-> 0]
KYIV_TZ == [zone |-> "Europe/Kyiv", minutes |-> 0]

\* timezone(timedelta(minutes = m))
FixedTz(m) == [zone |-> "fixed", minutes |-> m]

\* None, where a datetime is expected.
NoDatetime == [none |-> TRUE]

datetime(year, month, day, hour, minute, second, microsecond, tzinfo) ==
    [year |-> year, month |-> month, day |-> day, hour |-> hour, minute |-> minute,
     second |-> second, microsecond |-> microsecond, tzinfo |-> tzinfo, fold |-> 0]

\* The number of days from 1970-01-01 to the day year-month-day of the
\* proleptic Gregorian calendar.
DaysFromCivil(year, month, day) ==
    LET y == IF month <= 2 THEN year - 1 ELSE year
        era == y \div 400
        yoe == y - era * 400
        mp == (month + 9) % 12
        doy == (153 * mp + 2) \div 5 + day - 1
        doe == yoe * 365 + yoe \div 4 - yoe \div 100 + doy
    IN era * 146097 + doe - 719468

\* The day that lies z days after 1970-01-01.
CivilFromDays(z) ==
    LET s == z + 719468
        era == s \div 146097
        doe == s - era * 146097
        yoe == (doe - doe \div 1460 + doe \div 36524 - doe \div 146096) \div 365
        doy == doe - (365 * yoe + yoe \div 4 - yoe \div 100)
        mp == (5 * doy + 2) \div 153
        month == IF mp < 10 THEN mp + 3 ELSE mp - 9
    IN [year |-> yoe + era * 400 + (IF month <= 2 THEN 1 ELSE 0), month |-> month,
        day |-> doy - (153 * mp + 2) \div 5 + 1]

IsLeap(year) == year % 4 = 0 /\ (year % 100 # 0 \/ year % 400 = 0)

DaysInMonth(year, month) ==
    IF month = 2 THEN (IF IsLeap(year) THEN 29 ELSE 28)
    ELSE IF month \in {4, 6, 9, 11} THEN 30 ELSE 31

\* date.weekday(): Monday is 0, Sunday 6.
Weekday(year, month, day) == (DaysFromCivil(year, month, day) + 3) % 7

\* The last Sunday of a month of 31 days.
LastSunday(year, month) == 31 - ((Weekday(year, month, 31) + 1) % 7)

\* Minutes from 1970-01-01T00:00 to the wall time of dt.
WallMinutes(dt) == DaysFromCivil(dt.year, dt.month, dt.day) * 1440 + dt.hour * 60 + dt.minute

\* Europe/Kyiv: summer time from 01:00 UTC of the last Sunday of March to
\* 01:00 UTC of the last Sunday of October; in minutes from 1970-01-01T00:00 UTC.
SummerStart(year) == DaysFromCivil(year, 3, LastSunday(year, 3)) * 1440 + 60

SummerEnd(year) == DaysFromCivil(year, 10, LastSunday(year, 10)) * 1440 + 60

KYIV_WINTER == 120
KYIV_SUMMER == 180

\* ZoneInfo.utcoffset at an instant given in UTC.
KyivOffsetAt(utc) ==
    LET year == CivilFromDays(utc \div 1440).year
    IN IF SummerStart(year) <= utc /\ utc < SummerEnd(year) THEN KYIV_SUMMER ELSE KYIV_WINTER

\* ZoneInfo.utcoffset(dt) for a wall time: in the hour the clocks skip and
\* in the hour they repeat, fold 0 takes the offset before the change and
\* fold 1 the offset after it.
KyivOffsetOf(dt) ==
    LET wall == WallMinutes(dt)
        shift == IF dt.fold = 0 THEN KYIV_SUMMER ELSE KYIV_WINTER
    IN IF SummerStart(dt.year) + shift <= wall /\ wall < SummerEnd(dt.year) + shift
       THEN KYIV_SUMMER ELSE KYIV_WINTER

\* dt.utcoffset(), in minutes, of an aware datetime.
utcoffset(dt) == IF dt.tzinfo = KYIV_TZ THEN KyivOffsetOf(dt) ELSE dt.tzinfo.minutes

\* The instant of an aware datetime, in minutes from 1970-01-01T00:00 UTC
\* (its seconds and microseconds left aside).
UtcMinutes(dt) == WallMinutes(dt) - utcoffset(dt)

\* dt.astimezone(KYIV_TZ) keeping the date of dt: the conversion dropped.
astimezone_same_wall(dt) == [dt EXCEPT !.tzinfo = KYIV_TZ]

\* dt.astimezone(KYIV_TZ) for an aware dt: the same instant as Kyiv wall
\* time; fold is 1 in the second pass of the repeated hour.
astimezone(dt) ==
    IF dt.tzinfo = KYIV_TZ THEN dt
    ELSE LET utc == UtcMinutes(dt)
             wall == utc + KyivOffsetAt(utc)
             date == CivilFromDays(wall \div 1440)
         IN [year |-> date.year, month |-> date.month, day |-> date.day,
             hour |-> (wall % 1440) \div 60, minute |-> wall % 60,
             second |-> dt.second, microsecond |-> dt.microsecond, tzinfo |-> KYIV_TZ,
             fold |-> IF KyivOffsetAt(utc) = KYIV_WINTER /\ KyivOffsetAt(utc - 60) = KYIV_SUMMER
                      THEN 1 ELSE 0]

\* text[i], "" past either end.
char_at(text, i) == IF i \in 1..Len(text) THEN ch(text, i) ELSE ""

\* int(s) for a run of digits.
RECURSIVE int_of(_)
int_of(s) ==
    IF s = "" THEN 0
    ELSE int_of(SubSeq(s, 1, Len(s) - 1)) * 10
             + (CHOOSE v \in 0..9 : ch("0123456789", v + 1) = ch(s, Len(s)))

\* The length of the run of characters of S that starts at i (0 if none).
RunAt(text, i, S) ==
    IF i > Len(text) \/ ch(text, i) \notin S THEN 0
    ELSE IF \A k \in i..Len(text) : ch(text, k) \in S THEN Len(text) - i + 1
    ELSE (CHOOSE k \in i..Len(text) :
              /\ ch(text, k) \notin S
              /\ \A j \in i..(k - 1) : ch(text, j) \in S) - i

\* text.replace(old, new)
RECURSIVE Replace(_, _, _)
Replace(text, old, new) ==
    IF ~Contains(text, old) THEN text
    ELSE SubSeq(text, 1, Find(text, old) - 1) \o new
             \o Replace(SubSeq(text, Find(text, old) + Len(old), Len(text)), old, new)

\* re.sub(r"\s+word", "", text)
RECURSIVE DropSpacedWord(_, _)
DropSpacedWord(text, word) ==
    LET at == {i \in 2..(Len(text) - Len(word) + 1) :
                  /\ SubSeq(text, i, i + Len(word) - 1) = word
                  /\ ch(text, i - 1) \in Whitespace}
    IN IF at = {} THEN text
       ELSE LET i == CHOOSE i \in at : \A j \in at : i <= j
                head == SubSeq(text, 1, i - 1)
            IN RStripChars(head, Whitespace)
                   \o DropSpacedWord(SubSeq(text, i + Len(word), Len(text)), word)

\* re.sub(r"\s+r(\.|oku)?$", "", text)
DropYearWord(text) ==
    LET ends == {w \in {"roku", "r.", "r"} :
                    /\ EndsWith(text, w)
                    /\ Len(text) > Len(w)
                    /\ char_at(text, Len(text) - Len(w)) \in Whitespace}
    IN IF ends = {} THEN text
       ELSE LET w == CHOOSE w \in ends : \A v \in ends : Len(v) <= Len(w)
            IN RStripChars(SubSeq(text, 1, Len(text) - Len(w)), Whitespace)

\* Lines 53-59: the text the patterns are applied to.
date_text(raw) ==
    normalize_spaces(
        Replace(Replace(DropYearWord(DropSpacedWord(Replace(Lower(raw), "sohodni", ""),
                                                    "vchora")),
                        " o ", " "),
                ",", " "))

NoMatch == [found |-> FALSE]

\* re.search(r"(\d{1,2}):(\d{2})", text): the leftmost place where one or
\* two digits, a colon and two digits stand.
TimeAt(text, i) ==
    IF DigitsAt(text, i, 2) /\ char_at(text, i + 2) = ":" /\ DigitsAt(text, i + 3, 2)
    THEN [found |-> TRUE, hour |-> int_of(SubSeq(text, i, i + 1)),
          minute |-> int_of(SubSeq(text, i + 3, i + 4)), end |-> i + 4]
    ELSE IF DigitsAt(text, i, 1) /\ char_at(text, i + 1) = ":" /\ DigitsAt(text, i + 2, 2)
    THEN [found |-> TRUE, hour |-> int_of(SubSeq(text, i, i)),
          minute |-> int_of(SubSeq(text, i + 2, i + 3)), end |-> i + 3]
    ELSE NoMatch

\* The leftmost i in 1..Len(text) where At(text, i) is a match.
Leftmost(text, At(_, _)) ==
    IF \A i \in 1..Len(text) : ~At(text, i).found THEN NoMatch
    ELSE At(text, CHOOSE i \in 1..Len(text) :
                      /\ At(text, i).found
                      /\ \A j \in 1..(i - 1) : ~At(text, j).found)

TimeSearch(text) == Leftmost(text, TimeAt)

\* re.fullmatch(r"(\d{1,2}):(\d{2})(?:\s*hod\.?)?", text)
TimeOnly(text) ==
    LET m == TimeAt(text, 1)
    IN IF ~m.found THEN NoMatch
       ELSE IF m.end = Len(text) THEN m
       ELSE IF LStripChars(SubSeq(text, m.end + 1, Len(text)), Whitespace) \in {"hod", "hod."}
       THEN m
       ELSE NoMatch

\* re.search(r"(\d{1,2})[./-](\d{1,2})[./-](\d{4})", text)
DottedAt(text, i) ==
    LET a == RunAt(text, i, Digits)
        b == RunAt(text, i + a + 1, Digits)
        Seps == {".", "/", "-"}
    IN IF /\ a \in {1, 2} /\ b \in {1, 2}
          /\ char_at(text, i + a) \in Seps /\ char_at(text, i + a + 1 + b) \in Seps
          /\ DigitsAt(text, i + a + b + 2, 4)
       THEN [found |-> TRUE, day |-> int_of(SubSeq(text, i, i + a - 1)),
             month |-> int_of(SubSeq(text, i + a + 1, i + a + b)),
             year |-> int_of(SubSeq(text, i + a + b + 2, i + a + b + 5)),
             end |-> i + a + b + 5]
       ELSE IF /\ a > 2 /\ b \in {1, 2}
               /\ char_at(text, i + a) \in Seps /\ char_at(text, i + a + 1 + b) \in Seps
               /\ DigitsAt(text, i + a + b + 2, 4)
       THEN [found |-> TRUE, day |-> int_of(SubSeq(text, i + a - 2, i + a - 1)),
             month |-> int_of(SubSeq(text, i + a + 1, i + a + b)),
             year |-> int_of(SubSeq(text, i + a + b + 2, i + a + b + 5)),
             end |-> i + a + b + 5]
       ELSE NoMatch

DottedSearch(text) == Leftmost(text, DottedAt)

MONTH_NUMBERS ==
    [sichnia |-> 1, sich |-> 1, liutoho |-> 2, liut |-> 2, bereznia |-> 3, berez |-> 3,
     ber |-> 3, kvitnia |-> 4, kvit |-> 4, travnia |-> 5, trav |-> 5, chervnia |-> 6,
     cherv |-> 6, lypnia |-> 7, lyp |-> 7, serpnia |-> 8, serp |-> 8, veresnia |-> 9,
     veres |-> 9, ver |-> 9, zhovtnia |-> 10, zhovt |-> 10, zhov |-> 10,
     lystopada |-> 11, lystop |-> 11, lyst |-> 11, hrudnia |-> 12, hrud |-> 12]

\* re.search(r"(\d{1,2})\s+([a-z.]+)\s+(\d{4})", text)
WordsAt(text, i) ==
    LET a == RunAt(text, i, Digits)
        s1 == RunAt(text, i + a, Whitespace)
        w == RunAt(text, i + a + s1, LowerCase \cup {"."})
        s2 == RunAt(text, i + a + s1 + w, Whitespace)
    IN IF a >= 1 /\ s1 >= 1 /\ w >= 1 /\ s2 >= 1 /\ DigitsAt(text, i + a + s1 + w + s2, 4)
       THEN [found |-> TRUE,
             day |-> int_of(SubSeq(text, (IF a > 2 THEN i + a - 2 ELSE i), i + a - 1)),
             month_name |-> SubSeq(text, i + a + s1, i + a + s1 + w - 1),
             year |-> int_of(SubSeq(text, i + a + s1 + w + s2, i + a + s1 + w + s2 + 3))]
       ELSE NoMatch

WordsSearch(text) == Leftmost(text, WordsAt)

\* _MONTHS.get(month_name) or _MONTHS.get(normalized_month); 0 for None.
month_of(month_name) ==
    IF month_name \in DOMAIN MONTH_NUMBERS THEN MONTH_NUMBERS[month_name]
    ELSE IF Strip(Replace(month_name, ".", "")) \in DOMAIN MONTH_NUMBERS
    THEN MONTH_NUMBERS[Strip(Replace(month_name, ".", ""))]
    ELSE 0

\* datetime(year, month, day, hour, minute, tzinfo=tz), None on ValueError.
datetime_or_none(year, month, day, hour, minute, tz) ==
    IF /\ year \in 1..9999 /\ month \in 1..12 /\ day \in 1..DaysInMonth(year, month)
       /\ hour \in 0..23 /\ minute \in 0..59
    THEN datetime(year, month, day, hour, minute, 0, 0, tz)
    ELSE NoDatetime

\* re.search of the ISO 8601 pattern (line 61): yyyy-mm-ddThh:mm at i.
IsoAt(text, i) ==
    IF /\ DigitsAt(text, i, 4) /\ char_at(text, i + 4) = "-" /\ DigitsAt(text, i + 5, 2)
       /\ char_at(text, i + 7) = "-" /\ DigitsAt(text, i + 8, 2) /\ char_at(text, i + 10) = "t"
       /\ DigitsAt(text, i + 11, 2) /\ char_at(text, i + 13) = ":" /\ DigitsAt(text, i + 14, 2)
    THEN LET sec == char_at(text, i + 16) = ":" /\ DigitsAt(text, i + 17, 2)
             z == i + (IF sec THEN 19 ELSE 16)
             colon == IF char_at(text, z + 3) = ":" THEN 1 ELSE 0
             zoned == /\ char_at(text, z) \in {"+", "-"} /\ DigitsAt(text, z + 1, 2)
                      /\ DigitsAt(text, z + 3 + colon, 2)
         IN [found |-> TRUE, year |-> int_of(SubSeq(text, i, i + 3)),
             month |-> int_of(SubSeq(text, i + 5, i + 6)),
             day |-> int_of(SubSeq(text, i + 8, i + 9)),
             hour |-> int_of(SubSeq(text, i + 11, i + 12)),
             minute |-> int_of(SubSeq(text, i + 14, i + 15)),
             second |-> IF sec THEN int_of(SubSeq(text, i + 17, i + 18)) ELSE 0,
             tzinfo |-> IF zoned
                        THEN FixedTz((IF char_at(text, z) = "-" THEN -1 ELSE 1)
                                         * (int_of(SubSeq(text, z + 1, z + 2)) * 60
                                            + int_of(SubSeq(text, z + 3 + colon, z + 4 + colon))))
                        ELSE IF char_at(text, z) = "z" THEN FixedTz(0) ELSE NoTz]
    ELSE NoMatch

IsoSearch(text) == Leftmost(text, IsoAt)

\* datetime.fromisoformat(iso_value), NoDatetime on ValueError; a naive
\* value gets tz.
fromisoformat(m, tz) ==
    IF /\ m.year \in 1..9999 /\ m.month \in 1..12 /\ m.day \in 1..DaysInMonth(m.year, m.month)
       /\ m.hour \in 0..23 /\ m.minute \in 0..59 /\ m.second \in 0..59
    THEN datetime(m.year, m.month, m.day, m.hour, m.minute, m.second, 0,
                  IF m.tzinfo = NoTz THEN tz ELSE m.tzinfo)
    ELSE NoDatetime

\* base.replace(hour=hour, minute=minute, second=0, microsecond=0), None on
\* ValueError.
replace_time(base, hour, minute) ==
    IF hour \in 0..23 /\ minute \in 0..59
    THEN [base EXCEPT !.hour = hour, !.minute = minute, !.second = 0, !.microsecond = 0]
    ELSE NoDatetime

\* Lines 99-105: the reference as a Kyiv datetime; now stands for
\* datetime.now(tz).
reference_base(reference, now) ==
    IF reference = NoDatetime THEN now
    ELSE IF reference.tzinfo = NoTz THEN [reference EXCEPT !.tzinfo = KYIV_TZ]
    ELSE astimezone(reference)

\* Lines 75-130: the branches after the ISO pattern.
parse_plain(text, base) ==
    LET dotted == DottedSearch(text)
        time_only == TimeOnly(text)
        words == WordsSearch(text)
    IN IF dotted.found
       THEN LET time_match == TimeSearch(SubSeq(text, dotted.end + 1, Len(text)))
            IN datetime_or_none(dotted.year, dotted.month, dotted.day,
                                IF time_match.found THEN time_match.hour ELSE 0,
                                IF time_match.found THEN time_match.minute ELSE 0, KYIV_TZ)
       ELSE IF time_only.found THEN replace_time(base, time_only.hour, time_only.minute)
       ELSE IF words.found
       THEN IF month_of(words.month_name) = 0 THEN NoDatetime
            ELSE datetime_or_none(words.year, month_of(words.month_name), words.day,
                                  IF TimeSearch(text).found THEN TimeSearch(text).hour ELSE 0,
                                  IF TimeSearch(text).found THEN TimeSearch(text).minute ELSE 0,
                                  KYIV_TZ)
       ELSE NoDatetime

\* parse_ukrainian_date(value, reference) with tz = KYIV_TZ.
parse_ukrainian_date(value, reference, now) ==
    IF Strip(value) = "" THEN NoDatetime
    ELSE LET text == date_text(Strip(value))
             iso_match == IsoSearch(text)
         IN IF iso_match.found /\ fromisoformat(iso_match, KYIV_TZ) # NoDatetime
            THEN fromisoformat(iso_match, KYIV_TZ)
            ELSE parse_plain(text, reference_base(reference, now))

(***************************************************************************)
(* Inputs handed to parse_ukrainian_date                                   *)
(***************************************************************************)

\* Texts of a time alone, each with the hour and the minute it names.
Clock ==
    [value \in {"15:30", "00:00", "23:59", "9:05", " 07:45 ", "3:30", "15:30 hod.",
                "Sohodni, 11:13", "08:27 r."} |->
        CASE value = "15:30" -> <<15, 30>>
          [] value = "00:00" -> <<0, 0>>
          [] value = "23:59" -> <<23, 59>>
          [] value = "9:05" -> <<9, 5>>
          [] value = " 07:45 " -> <<7, 45>>
          [] value = "3:30" -> <<3, 30>>
          [] value = "15:30 hod." -> <<15, 30>>
          [] value = "Sohodni, 11:13" -> <<11, 13>>
          [] value = "08:27 r." -> <<8, 27>>]

\* Texts that are not a time with a valid hour and minute.
OtherValues ==
    {"", "24:00", "12:60", "15:30 vranci", "01.02.2025 15:30", "31.02.2025",
     "12 sich. 2025 10:15", "5 veresnia 2024 roku", "2025-01-01T15:30:00+02:00",
     "2025-13-01T10:00", "vchora"}

RefDays ==
    {<<2024, 12, 31>>, <<2025, 1, 1>>, <<2025, 3, 29>>, <<2025, 3, 30>>, <<2025, 10, 26>>,
     <<2024, 2, 29>>}

RefClocks ==
    {<<0, 0, 0, 0>>, <<1, 30, 0, 0>>, <<3, 30, 15, 250>>, <<21, 30, 0, 0>>,
     <<23, 59, 59, 999999>>}

RefZones == {NoTz, KYIV_TZ, FixedTz(0), FixedTz(120), FixedTz(-300)}

\* reference arguments: None, naive datetimes and aware ones.
References ==
    {NoDatetime} \cup
    {datetime(d[1], d[2], d[3], c[1], c[2], c[3], c[4], z) :
        d \in RefDays, c \in RefClocks, z \in RefZones}

\* Values of datetime.now(KYIV_TZ).
Nows ==
    {datetime(2025, 6, 15, 12, 0, 30, 5, KYIV_TZ), datetime(2025, 12, 31, 23, 59, 59, 0, KYIV_TZ)}

NotParsed == [called |-> FALSE]

DateIdle ==
    /\ dValue = ""
    /\ dReference = NoDatetime
    /\ dOut = NotParsed

\* parse_ukrainian_date(dValue, reference=dReference)
ParseDate ==
    /\ dOut = NotParsed
    /\ \E now \in Nows : dOut' = parse_ukrainian_date(dValue, dReference, now)
    /\ UNCHANGED <<dValue, dReference, fetchVars, ingestVars, cycleVars, textVars, previewVars,
                   botVars>>

(***************************************************************************)
(* handlers/draft_make.py : make_cmd                                       *)
(* handlers/moderation.py : approve_cmd, draft_preview_action_callback     *)
(*                                                                         *)
(* A handler runs from its call to its return in one step.  A preview row  *)
(* stands for the text build_preview_variants renders for its draft; the   *)
(* rendering itself is followed in SpecPreview.                            *)
(***************************************************************************)

\* The number of ingest_one calls, of drafts made and of messages sent in
\* SpecModeration.
MaxIngests == 1
MaxDrafts == 1
MaxMessages == 2

BASE_TAGS == "#PillarTwo #CFC #CRS #BO #WHT #IPBox #TP #DiiaCity #NBU #UkraineTax #IT"

SUBSCRIBE_PROMO_MD == "[**" \o SUBSCRIBE_PROMO_TEXT \o "**](" \o SUBSCRIBE_PROMO_URL \o ")"

\* Replies of the handlers to the admin.
REPLY_PUBLISHED == "Opublikovano"
REPLY_SEND_FAILED == "Ne vdalosia vidpravyty v kanal."
REPLY_PUBLISH_FAILED == "Ne vdalosia opublikuvaty."
REPLY_NO_DRAFT == "Draft ne znaideno."
REPLY_NO_ARTICLE == "Stattiu ne znaideno."
REPLY_NOT_LEVEL1 == "Vidkhyleno: nemaie ofitsiinoho dzherela (Riven 1)."
REPLY_MAKE_NOT_LEVEL1 == "Vidkhyleno: dzherelo ne vkhodyt do Riven 1."
REPLY_USAGE == "Vykorystannia"
REPLY_BAD_ID == "Nekorektnyi ID."
REPLY_CREATED == "Draft stvoreno"
REPLY_SHOWN == "Nadsylaiu preview"
REPLY_BAD_ACTION == "Nevidoma diia."
REPLY_BAD_DATA == "Nekorektna diia."
REPLY_BAD_VARIANT == "Nevidomyi variant."

\* int() of an argument the admin typed (0: int() raises ValueError; rows
\* have ids from 1).
int_id(text) == CASE text = "1" -> 1 [] text = "2" -> 2 [] text = "3" -> 3 [] OTHER -> 0

\* session.get(Article, id) and session.get(Draft, id); NoRow: None.
NoRow == [id |-> 0]

get_article(id) ==
    IF \E a \in articles : a.id = id THEN CHOOSE a \in articles : a.id = id ELSE NoRow

get_draft(id) == IF id \in 1..Len(mDrafts) THEN mDrafts[id] ELSE NoRow

\* body_md of make_cmd, from body_core = long_post or ua.
make_body_md(title, body_core) ==
    Strip(Strip(IF Strip(body_core) # ""
                THEN "**" \o Strip(title) \o "**" \o "\n\n" \o Strip(body_core)
                ELSE "**" \o Strip(title) \o "**")
          \o "\n\n" \o SUBSCRIBE_PROMO_MD)

\* _ensure_tax_article_image: the image of a tax.gov.ua article that is
\* missing or preview-sized is replaced by the one found on the page
\* fetched again (found = NoUrl: nothing fetched, or nothing found there).
ensure_tax_article_image(article, found) ==
    IF ~Contains(Lower(article.url.host), "tax.gov.ua")
       /\ ~Contains(article.source_domain, "tax.gov.ua")
    THEN article.image_url
    ELSE IF article.image_url # NoUrl /\ ~Contains(Lower(article.image_url.path), "preview")
    THEN article.image_url
    ELSE IF found # NoUrl THEN found
    ELSE article.image_url

DraftPreview(draft_id, kind) == [draft_id |-> draft_id, kind |-> kind]

BothKinds == {PREVIEW_WITH_IMAGE, PREVIEW_WITHOUT_IMAGE}

\* _ensure_preview_variants: the preview rows in the session after it; the
\* rows are built and added unless both are stored.
ensure_preview_variants(draft) ==
    IF \A kind \in BothKinds : DraftPreview(draft.id, kind) \in mPreviews
    THEN mPreviews
    ELSE mPreviews \cup {DraftPreview(draft.id, kind) : kind \in BothKinds}

\* What a handler did: its reply, the chat it sent the draft to ("": none)
\* and whether the send came through, whether it set approved, and whether
\* it committed.
Handled(reply, chat, delivered, approve, commit) ==
    [reply |-> reply, chat |-> chat, delivered |-> delivered, approve |-> approve,
     commit |-> commit]

Refused(reply) == Handled(reply, "", FALSE, FALSE, FALSE)

\* The variant approve_cmd publishes.
approve_variant(has_image, option) ==
    IF option \in {"text", "noimage", "without", "without_image", "plain"}
    THEN PREVIEW_WITHOUT_IMAGE
    ELSE IF has_image THEN PREVIEW_WITH_IMAGE ELSE PREVIEW_WITHOUT_IMAGE

\* approve_cmd marking the draft before it sends.
approve_send_marked_first(send) ==
    IF send = "raises" THEN Handled(REPLY_SEND_FAILED, "channel", FALSE, TRUE, TRUE)
    ELSE Handled(REPLY_PUBLISHED, "channel", TRUE, TRUE, TRUE)

\* approve_cmd from the send on.
approve_send(send) ==
    IF send = "raises" THEN Handled(REPLY_SEND_FAILED, "channel", FALSE, FALSE, FALSE)
    ELSE Handled(REPLY_PUBLISHED, "channel", TRUE, TRUE, TRUE)

\* approve_cmd from the lookup of the draft on.
approve_found(d, a, send) ==
    IF d = NoRow THEN Refused(REPLY_NO_DRAFT)
    ELSE IF a = NoRow THEN Refused(REPLY_NO_ARTICLE)
    ELSE IF ~a.level1_ok THEN Refused(REPLY_NOT_LEVEL1)
    ELSE approve_send(send)

\* The article of a draft row, None for no draft.
article_of(d) == IF d = NoRow THEN NoRow ELSE get_article(d.article_id)

\* approve_cmd(context.args)
approve_cmd(args, send) ==
    IF args = <<>> THEN Refused(REPLY_USAGE)
    ELSE IF int_id(args[1]) = 0 THEN Refused(REPLY_BAD_ID)
    ELSE approve_found(get_draft(int_id(args[1])), article_of(get_draft(int_id(args[1]))), send)

\* draft_preview_action_callback from the action on.
callback_action(action, send) ==
    IF action = "show" THEN Handled(REPLY_SHOWN, "admin", send = "ok", FALSE, FALSE)
    ELSE IF action # "publish" THEN Refused(REPLY_BAD_ACTION)
    ELSE IF send = "raises" THEN Handled(REPLY_PUBLISH_FAILED, "channel", FALSE, FALSE, FALSE)
    ELSE Handled(REPLY_PUBLISHED, "channel", TRUE, TRUE, TRUE)

\* draft_preview_action_callback from the lookup of the draft on.
callback_found(d, a, action, send) ==
    IF d = NoRow THEN Refused(REPLY_NO_DRAFT)
    ELSE IF a = NoRow THEN Refused(REPLY_NO_ARTICLE)
    ELSE callback_action(action, send)

\* draft_preview_action_callback(query.data.split(":"))
draft_preview_action_callback(parts, send) ==
    IF Len(parts) # 4 THEN Refused(REPLY_BAD_DATA)
    ELSE IF parts[4] \notin BothKinds THEN Refused(REPLY_BAD_VARIANT)
    ELSE IF int_id(parts[2]) = 0 THEN Refused(REPLY_BAD_ID)
    ELSE callback_found(get_draft(int_id(parts[2])), article_of(get_draft(int_id(parts[2]))),
                        parts[3], send)

\* _send_variant_to_chat: the message that arrives, with the draft and the
\* article it was rendered from as they were when it was sent.
Message(draft, variant) ==
    [draft_id |-> draft.id, article_id |-> draft.article_id, variant |-> variant,
     as_photo |-> (variant = PREVIEW_WITH_IMAGE /\ draft.image_url # NoUrl),
     level1_ok |-> article_of(draft).level1_ok, approved |-> draft.approved]

\* A command handled, for the record.
Logged(cmd, id, h, before, after) ==
    [cmd |-> cmd, draft_id |-> id, chat |-> h.chat, delivered |-> h.delivered,
     reply |-> h.reply, commit |-> h.commit, approved_before |-> before,
     approved_after |-> after]

\* The effect of approve_cmd or of the callback: the message is delivered
\* when it is sent, and what the session holds (the approved flag it set,
\* the preview rows it added) is stored by the commit alone.
ModHandled(cmd, id, variant, h) ==
    /\ mChannel' = IF h.chat = "channel" /\ h.delivered
                   THEN Append(mChannel, Message(get_draft(id), variant)) ELSE mChannel
    /\ mChat' = IF h.chat = "admin" /\ h.delivered
                THEN Append(mChat, Message(get_draft(id), variant)) ELSE mChat
    /\ mDrafts' = IF h.commit THEN [mDrafts EXCEPT ![id].approved = h.approve] ELSE mDrafts
    /\ mPreviews' = IF h.commit THEN ensure_preview_variants(get_draft(id)) ELSE mPreviews
    /\ mLast' = Logged(cmd, id, h, get_draft(id) # NoRow /\ get_draft(id).approved,
                       get_draft(id) # NoRow
                       /\ (IF h.commit THEN h.approve ELSE get_draft(id).approved))

\* /approve <id> [option]; send: what the bot's send to the chat does.
ApproveCmd(args, option, send) ==
    /\ iPc = "idle"
    /\ Len(mChannel) + Len(mChat) < MaxMessages
    /\ ModHandled("approve", IF args = <<>> THEN 0 ELSE int_id(args[1]),
                  IF args = <<>> \/ get_draft(int_id(args[1])) = NoRow THEN ""
                  ELSE approve_variant(get_draft(int_id(args[1])).image_url # NoUrl, option),
                  approve_cmd(args, send))
    /\ UNCHANGED <<coreVars, browserVars, raceVars>>

\* A press of a button under a draft: show or publish a variant.
PreviewAction(parts, send) ==
    /\ iPc = "idle"
    /\ Len(mChannel) + Len(mChat) < MaxMessages
    /\ ModHandled("callback", IF Len(parts) = 4 THEN int_id(parts[2]) ELSE 0,
                  IF Len(parts) = 4 THEN parts[4] ELSE "",
                  draft_preview_action_callback(parts, send))
    /\ UNCHANGED <<coreVars, browserVars, raceVars>>

\* The draft row make_cmd adds for the article, with the image
\* _ensure_tax_article_image chose.
Draft(a, body_core, image_url) ==
    [id |-> Len(mDrafts) + 1, article_id |-> a.id, body_md |-> make_body_md(a.title, body_core),
     tags |-> BASE_TAGS, image_url |-> image_url, approved |-> FALSE]

NotMade(reply) == [reply |-> reply, created |-> FALSE]

Made(a, body_core, image_url) ==
    [reply |-> REPLY_CREATED, created |-> TRUE, draft |-> Draft(a, body_core, image_url),
     article |-> [a EXCEPT !.image_url = image_url]]

\* make_cmd without its level-1 check.
make_cmd_any_level(a, body_core, found) ==
    IF a = NoRow THEN NotMade(REPLY_NO_ARTICLE)
    ELSE Made(a, body_core, ensure_tax_article_image(a, found))

\* make_cmd from session.get(Article, aid) on.
make_cmd(a, body_core, found) ==
    IF a = NoRow THEN NotMade(REPLY_NO_ARTICLE)
    ELSE IF ~a.level1_ok THEN NotMade(REPLY_MAKE_NOT_LEVEL1)
    ELSE Made(a, body_core, ensure_tax_article_image(a, found))

\* The tables after make_cmd.
MakeHandled(aid, made) ==
    /\ mDrafts' = IF made.created THEN Append(mDrafts, made.draft) ELSE mDrafts
    /\ mPreviews' = IF made.created
                    THEN mPreviews \cup {DraftPreview(made.draft.id, kind) : kind \in BothKinds}
                    ELSE mPreviews
    /\ articles' = IF made.created
                   THEN (articles \ {get_article(aid)}) \cup {made.article} ELSE articles
    /\ mLast' = Logged("make", IF made.created THEN made.draft.id ELSE 0,
                       Handled(made.reply, "", FALSE, FALSE, made.created), FALSE, FALSE)

\* /make <article_id>; body_core: the long post of the rewrite; found: the
\* image the article's page gives when it is fetched again.
MakeCmd(arg, body_core, found) ==
    /\ iPc = "idle"
    /\ Len(mDrafts) < MaxDrafts
    /\ IF int_id(arg) = 0
       THEN MakeHandled(0, NotMade(REPLY_BAD_ID))
       ELSE MakeHandled(int_id(arg), make_cmd(get_article(int_id(arg)), body_core, found))
    /\ UNCHANGED <<mChannel, mChat, iPc, iCall, iHist, fetchVars, cycleVars, textVars,
                   previewVars, dateVars, browserVars, raceVars>>

NoCommand == Logged("", 0, Refused(""), FALSE, FALSE)

ModIdle ==
    /\ mDrafts = <<>>
    /\ mPreviews = {}
    /\ mChannel = <<>>
    /\ mChat = <<>>
    /\ mLast = NoCommand

(***************************************************************************)
(* jobs/fetch.py : ingest_one, calls that overlap                          *)
(*                                                                         *)
(* run_ingest_cycle is started by the scheduler and by the refresh button; *)
(* the calls of two cycles for one feed entry interleave at their awaits.  *)
(* Each call has its own session; the articles table is shared, with the   *)
(* unique constraint on url (db/models.py).                                *)
(***************************************************************************)

\* The number of ingest_one calls that overlap.
MaxProcs == 2

Procs == 1..MaxProcs

\* A call: where it stands, what it returned and from which step, the
\* summary and the image it holds after its fetches, and the row it stored
\* ("unique": its insert met the unique constraint).
RaceCall(pc, result, summary_text, image_url, row) ==
    [pc |-> pc, result |-> result, at |-> "", summary_text |-> summary_text,
     image_url |-> image_url, row |-> row]

RaceDone(result, at) == [RaceCall("done", result, None, NoUrl, NoRow) EXCEPT !.at = at]

\* ingest_one up to the session: normalization and the whitelist check.
RaceBegin(p) ==
    /\ rCalls[p].pc = "idle"
    /\ rCalls' = [rCalls EXCEPT ![p] =
                     IF ~in_whitelist_lvl1(domain(normalize_url(rItem.url)))
                     THEN RaceDone("skipped_level1", "check")
                     ELSE RaceCall("lookup", "", None, NoUrl, NoRow)]
    /\ UNCHANGED <<rItem, coreVars, browserVars, modVars>>

\* The duplicate lookup, on the rows committed so far.
race_lookup(db, exists) ==
    IF db = "raise" \/ Cardinality(exists) > 1 THEN RaceDone("error", "lookup")
    ELSE IF exists # {} THEN RaceDone("duplicate", "lookup")
    ELSE RaceCall("fetch", "", None, NoUrl, NoRow)

RaceLookup(p, db) ==
    /\ rCalls[p].pc = "lookup"
    /\ rCalls' = [rCalls EXCEPT ![p] =
                     race_lookup(db, {a \in articles :
                                         a.url \in {normalize_url(rItem.url), rItem.url}})]
    /\ UNCHANGED <<rItem, coreVars, browserVars, modVars>>

\* The returns for want of a body, else on to the commit.
race_decide(w, isBank, got, body_text, summary_text) ==
    IF w.raises THEN RaceDone("error", "fetch")
    ELSE IF isBank /\ (got.html = NoPage \/ body_text = None) THEN RaceDone("skipped_no_body", "fetch")
    ELSE IF isBank /\ (summary_text = None \/ ~got.html.reliable) THEN RaceDone("skipped_no_body", "fetch")
    ELSE IF summary_text = None THEN RaceDone("skipped_no_body", "fetch")
    ELSE RaceCall("commit", "", summary_text, got.image_url, NoRow)

race_chosen(w, isBank, got, chosen) ==
    race_decide(w, isBank, got, chosen.candidate, normalize_text(chosen.candidate))

race_fetched(w, isBank, got) ==
    race_chosen(w, isBank, got, ingest_summary(rItem.title, rItem.summary, isBank, got))

\* The page fetches and the body selection of one call, in the world it
\* meets.
RaceFetch(p, w) ==
    /\ rCalls[p].pc = "fetch"
    /\ rCalls' = [rCalls EXCEPT ![p] =
                     race_fetched(w, EndsWith(domain(normalize_url(rItem.url)), "bank.gov.ua"),
                                  ingest_pages(w, rItem.url, normalize_url(rItem.url)))]
    /\ UNCHANGED <<rItem, coreVars, browserVars, modVars>>

\* The row a call adds.
race_row(call) ==
    [id |-> Cardinality(articles) + 1,
     title |-> IF rItem.title # "" THEN rItem.title
               ELSE normalize_url(rItem.url).host \o normalize_url(rItem.url).path,
     url |-> normalize_url(rItem.url), source_domain |-> domain(normalize_url(rItem.url)),
     summary |-> call.summary_text, image_url |-> call.image_url,
     level1_ok |-> in_whitelist_lvl1(domain(normalize_url(rItem.url)))]

\* The commit on a table without the unique constraint on url.
RaceCommit_NoConstraint(p, db) ==
    /\ rCalls[p].pc = "commit"
    /\ IF db = "raise"
       THEN /\ rCalls' = [rCalls EXCEPT ![p] = RaceDone("error", "commit")]
            /\ UNCHANGED articles
       ELSE /\ rCalls' = [rCalls EXCEPT ![p] = [RaceDone("created", "commit") EXCEPT
                                                   !.row = race_row(rCalls[p])]]
            /\ articles' = articles \cup {race_row(rCalls[p])}
    /\ UNCHANGED <<rItem, iPc, iCall, iHist, fetchVars, cycleVars, textVars, previewVars,
                   dateVars, browserVars, modVars>>

\* s.add(art); await s.commit(): the insert raises IntegrityError if a row
\* with the url has been committed meanwhile, and `except Exception` turns
\* it into "error".
RaceCommit(p, db) ==
    /\ rCalls[p].pc = "commit"
    /\ IF db = "raise" \/ \E a \in articles : a.url = normalize_url(rItem.url)
       THEN /\ rCalls' = [rCalls EXCEPT ![p] =
                             RaceDone("error", IF db = "raise" THEN "commit" ELSE "unique")]
            /\ UNCHANGED articles
       ELSE /\ rCalls' = [rCalls EXCEPT ![p] = [RaceDone("created", "commit") EXCEPT
                                                   !.row = race_row(rCalls[p])]]
            /\ articles' = articles \cup {race_row(rCalls[p])}
    /\ UNCHANGED <<rItem, iPc, iCall, iHist, fetchVars, cycleVars, textVars, previewVars,
                   dateVars, browserVars, modVars>>

RaceIdle ==
    /\ rItem = Item(NoUrl, "", "fresh")
    /\ rCalls = [p \in Procs |-> RaceDone("", "")]

(***************************************************************************)
(* Specifications                                                          *)
(***************************************************************************)

\* The number of ingest_one calls followed in SpecIngest.
MaxCalls == 2

FetchInit ==
    /\ FetchIdle
    /\ fCaps \in [curl : BOOLEAN, playwright : BOOLEAN]
    /\ IngestIdle
    /\ CycleIdle
    /\ ExtractIdle
    /\ PreviewIdle
    /\ DateIdle
    /\ BrowserIdle
    /\ ModIdle
    /\ RaceIdle

SpecFetch == FetchInit /\ [][FetchNext]_vars

IngestInit ==
    /\ FetchIdle
    /\ fCaps = [curl |-> TRUE, playwright |-> TRUE]
    /\ IngestIdle
    /\ CycleIdle
    /\ ExtractIdle
    /\ PreviewIdle
    /\ DateIdle
    /\ BrowserIdle
    /\ ModIdle
    /\ RaceIdle

IngestNext ==
    \/ \E item \in Items : Len(iHist) < MaxCalls /\ IngestBegin(item)
    \/ \E db \in {"ok", "raise"} : IngestLookup(db)
    \/ \E w \in FetchWorlds : IngestFetch(w)
    \/ \E db \in {"ok", "raise"} : IngestCommit(db)

SpecIngest == IngestInit /\ [][IngestNext]_vars

CycleInit ==
    /\ FetchIdle
    /\ fCaps = [curl |-> TRUE, playwright |-> TRUE]
    /\ IngestIdle
    /\ cPc = "running"
    /\ cBatch \in Batches
    /\ cPos = SkipEmpty(cBatch, <<1, 1>>)
    /\ cResults = NoCounts
    /\ ExtractIdle
    /\ PreviewIdle
    /\ DateIdle
    /\ BrowserIdle
    /\ ModIdle
    /\ RaceIdle

\* The worlds a cycle meets: every address serves its full page or nothing.
CycleWorlds ==
    {w \in FetchWorlds : /\ w.page = NoPage \/ w.page.article # ""
                         /\ w.print = NoPage \/ w.print.article # ""}

CycleNext ==
    \/ CycleSkipEntry
    \/ CycleIngestEntry
    \/ \E db \in {"ok", "raise"} : IngestLookup(db)
    \/ \E w \in CycleWorlds : IngestFetch(w)
    \/ \E db \in {"ok", "raise"} : IngestCommit(db)

SpecCycle == CycleInit /\ [][CycleNext]_vars

ExtractInit ==
    /\ FetchIdle
    /\ fCaps = [curl |-> TRUE, playwright |-> TRUE]
    /\ IngestIdle
    /\ CycleIdle
    /\ xShape \in Shapes
    /\ xPage = Page(Document(xShape))
    /\ xOut = NoOutput
    /\ PreviewIdle
    /\ DateIdle
    /\ BrowserIdle
    /\ ModIdle
    /\ RaceIdle

ExtractNext ==
    \/ ExtractTax
    \/ ExtractNbu
    \/ ExtractGeneric
    \/ \E identity \in BOOLEAN : ExtractArticle(identity)

SpecExtract == ExtractInit /\ [][ExtractNext]_vars

PreviewInit ==
    /\ FetchIdle
    /\ fCaps = [curl |-> TRUE, playwright |-> TRUE]
    /\ IngestIdle
    /\ CycleIdle
    /\ ExtractIdle
    /\ PreviewIdle
    /\ DateIdle
    /\ BrowserIdle
    /\ ModIdle
    /\ RaceIdle

\* The bodies make_cmd stores for a rewrite of a few sentences and for a
\* long one, and the call of build_preview_variants it makes with them.
DraftBodies ==
    {make_body_md(ShortTitle, ReviewProse(2)), make_body_md(ShortTitle, ReviewProse(ReviewSentences))}

DraftInputs ==
    [title : {ShortTitle}, review_md : DraftBodies,
     link_url : {"https://tax.gov.ua/news?id=1&ref=tg"}, tags : {BASE_TAGS}]

PreviewNext ==
    \/ \E input \in PreviewInputs \cup DraftInputs : PreviewCall(input)
    \/ BuildVariant

SpecPreview == PreviewInit /\ [][PreviewNext]_vars

\* build_variant is a loop without an await: inside it passes go on being
\* made.  (Weak fairness of BuildVariant, with "a pass can be made" written
\* as its guard, pPc \in BothKinds.)
InLoop == pPc \in BothKinds

SpecPreviewLive ==
    PreviewInit /\ [][PreviewNext]_vars /\ ([]<>(~InLoop) \/ []<><<InLoop>>_vars)

DatesInit ==
    /\ FetchIdle
    /\ fCaps = [curl |-> TRUE, playwright |-> TRUE]
    /\ IngestIdle
    /\ CycleIdle
    /\ ExtractIdle
    /\ PreviewIdle
    /\ dValue \in DOMAIN Clock \cup OtherValues
    /\ dReference \in References
    /\ dOut = NotParsed
    /\ BrowserIdle
    /\ ModIdle
    /\ RaceIdle

DatesNext == ParseDate

SpecDates == DatesInit /\ [][DatesNext]_vars

BrowserInit ==
    /\ FetchIdle
    /\ fCaps = [curl |-> TRUE, playwright |-> TRUE]
    /\ IngestIdle
    /\ CycleIdle
    /\ ExtractIdle
    /\ PreviewIdle
    /\ DateIdle
    /\ BrowserIdle
    /\ ModIdle
    /\ RaceIdle

SpecBrowser == BrowserInit /\ [][BrowserNext]_vars

\* A row of the articles table stored with the column default of level1_ok
\* (models.py: default=False), which ingest_one does not write.
StoredArticle ==
    [id |-> 1, title |-> "Title", url |-> BlogArticle, source_domain |-> "example.com",
     summary |-> None, image_url |-> NoUrl, level1_ok |-> FALSE]

\* The feed entries ingest_one meets between the commands, and the world it
\* meets them in.
ModItems == {Item(u, Teaser, "fresh") : u \in {TaxArticle, BlogArticle}}

ModWorlds ==
    {w \in CycleWorlds : w.page # NoPage /\ w.page.images # <<>> /\ w.print # NoPage /\ ~w.raises}

\* What the admin types after /make and /approve, what the buttons carry
\* ("draft:<id>:<action>:<variant>", split), and what the rewrite returns.
MakeArgs == {"1", "2", "x"}
ApproveArgs == {<<>>, <<"1">>, <<"2">>, <<"x">>}
ApproveOptions == {"", "text"}
CallbackParts ==
    {<<"draft", id, action, variant>> :
        id \in {"1", "2", "x"}, action \in {"show", "publish"},
        variant \in BothKinds} \cup {<<"draft", "1">>, <<"draft", "1", "drop", PREVIEW_WITH_IMAGE>>,
                                     <<"draft", "1", "show", "other">>}
LongPosts == {"", "The long post of the rewrite."}
Sends == {"ok", "raises"}

ModerationInit ==
    /\ FetchIdle
    /\ fCaps = [curl |-> TRUE, playwright |-> TRUE]
    /\ articles \in {{}, {StoredArticle}}
    /\ iPc = "idle"
    /\ iCall = NoCall
    /\ iHist = <<>>
    /\ CycleIdle
    /\ ExtractIdle
    /\ PreviewIdle
    /\ DateIdle
    /\ BrowserIdle
    /\ ModIdle
    /\ RaceIdle

ModerationNext ==
    \/ \E item \in ModItems : Len(iHist) < MaxIngests /\ IngestBegin(item)
    \/ \E db \in {"ok", "raise"} : IngestLookup(db)
    \/ \E w \in ModWorlds : IngestFetch(w)
    \/ \E db \in {"ok", "raise"} : IngestCommit(db)
    \/ \E arg \in MakeArgs, body_core \in LongPosts, found \in {NoUrl, Url("tax.gov.ua", FullImage)} :
          MakeCmd(arg, body_core, found)
    \/ \E args \in ApproveArgs, option \in ApproveOptions, send \in Sends :
          ApproveCmd(args, option, send)
    \/ \E parts \in CallbackParts, send \in Sends : PreviewAction(parts, send)

SpecModeration == ModerationInit /\ [][ModerationNext]_vars

\* The entries the overlapping calls are for.
RaceItems ==
    {Item(u, Teaser, "fresh") :
        u \in {TaxArticle, BankArticle, OecdArticle, BlogArticle,
               Wrapped("news.google.com", "/rss/articles/1", BankArticle)}}

RaceInit ==
    /\ FetchIdle
    /\ fCaps = [curl |-> TRUE, playwright |-> TRUE]
    /\ IngestIdle
    /\ CycleIdle
    /\ ExtractIdle
    /\ PreviewIdle
    /\ DateIdle
    /\ BrowserIdle
    /\ ModIdle
    /\ rItem \in RaceItems
    /\ rCalls = [p \in Procs |-> RaceCall("idle", "", None, NoUrl, NoRow)]

RaceNext ==
    \/ \E p \in Procs : RaceBegin(p)
    \/ \E p \in Procs, db \in {"ok", "raise"} : RaceLookup(p, db)
    \/ \E p \in Procs, w \in CycleWorlds : RaceFetch(p, w)
    \/ \E p \in Procs, db \in {"ok", "raise"} : RaceCommit(p, db)

SpecRace == RaceInit /\ [][RaceNext]_vars


(***************************************************************************)
(* Properties of the staged fetch ladder                                   *)
(***************************************************************************)

\* C3: within one staged_fetch_html call the strategies are attempted in the
\* fixed order httpx-HTTP/2, httpx-HTTP/1.1, curl_cffi, playwright; a step is
\* started only after all earlier steps finished without html; the first
\* html obtained is the value returned and no step follows it.
C3_LadderSequential ==
    /\ Len(fLog) <= 4
    /\ \A i \in 1..Len(fLog) :
          fLog[i].step = <<"httpx h2", "httpx h1", "curl_cffi", "playwright">>[i]
    /\ \A i \in 1..(Len(fLog) - 1) : ~fLog[i].gaveHtml
    /\ (Len(fLog) > 0 /\ fLog[Len(fLog)].gaveHtml)
          => (fPc = "done" /\ fResult = fLog[Len(fLog)].html)
    /\ fResult # None => (Len(fLog) > 0 /\ fLog[Len(fLog)].gaveHtml)
    /\ fPc = "running" => fStep = Len(fLog) + 1

\* C3 witness: the second step returned html and the call ended there.
C3_Witness ==
    fPc = "done" /\ Len(fLog) = 2 /\ fResult = "<html>article</html>"

\* A ladder step that did not succeed: skipped, raised, or answered with a
\* status other than 200.
StepFailed(e) ==
    e.kind \in {"skipped", "error"} \/ e.netStatus # "200"

\* C7: if every ladder step fails, is skipped, returns a non-success status
\* or raises, staged_fetch_html returns None, and it does so only after all
\* four steps were attempted.
C7_AllFailedGivesNone ==
    (fPc = "done" /\ \A i \in 1..Len(fLog) : StepFailed(fLog[i]))
        => (fResult = None /\ Len(fLog) = 4)

\* C8: html is returned only from a step whose response had status 200.
C8_HtmlOnlyFromSuccess ==
    fResult # None => fLog[Len(fLog)].netStatus = "200"

(***************************************************************************)
(* Properties of ingest_one and run_ingest_cycle                           *)
(***************************************************************************)

\* Two calls in sequence with the same address, the first returning created.
Repeated(i) ==
    /\ i + 1 <= Len(iHist)
    /\ iHist[i].url = iHist[i + 1].url
    /\ iHist[i].result = "created"

\* C4 (as claimed): the second of two calls in sequence with the same
\* address, the first of which returned created, returns duplicate, fetches
\* nothing and adds no row.
C4_SecondIsDuplicate ==
    \A i \in 1..Len(iHist) :
        Repeated(i) => /\ iHist[i + 1].result = "duplicate"
                       /\ iHist[i + 1].fetched = <<>>
                       /\ iHist[i + 1].added = 0

\* C4 (amended): the second call fetches nothing and adds no row; it
\* returns duplicate, except that it returns error when its own database
\* lookup raises.
C4_SecondIsDuplicateOrLookupError ==
    \A i \in 1..Len(iHist) :
        Repeated(i) =>
            /\ iHist[i + 1].fetched = <<>>
            /\ iHist[i + 1].added = 0
            /\ iHist[i + 1].result = IF iHist[i + 1].faulted THEN "error" ELSE "duplicate"

\* C4 witness: a rewritten address ingested twice, created then duplicate.
C4_Witness ==
    /\ Len(iHist) >= 2
    /\ Repeated(1)
    /\ iHist[1].url # iHist[1].normalized_url
    /\ iHist[2].result = "duplicate"

\* C5: a call whose normalized address has a domain outside the level-1
\* whitelist returns skipped_level1 and has opened no session, requested
\* no page and stored no row.
C5_NotWhitelistedNoEffect ==
    \A i \in 1..Len(iHist) :
        (\A d \in WHITELIST_LEVEL1 : ~EndsWith(iHist[i].normalized_url.host, d))
            => /\ iHist[i].result = "skipped_level1"
               /\ ~iHist[i].session
               /\ iHist[i].fetched = <<>>
               /\ iHist[i].added = 0

\* C5 witness: a Google News link to a page outside the whitelist was
\* rejected.
C5_Witness ==
    \E i \in 1..Len(iHist) :
        /\ iHist[i].url.host = "news.google.com"
        /\ iHist[i].normalized_url.host = "example.com"
        /\ iHist[i].result = "skipped_level1"

\* C6: an exception raised while an item is processed becomes the verdict
\* error, ingest_one never raises to its caller, and run_ingest_cycle
\* reaches its end with every entry of the batch counted.
C6_ErrorsIsolated ==
    /\ \A i \in 1..Len(iHist) :
          /\ iHist[i].result \in Verdicts
          /\ iHist[i].faulted => iHist[i].result = "error"
    /\ cPc # "aborted"
    /\ cPc = "done" => Counted(cResults) = BatchSize(cBatch)

\* C6 witness: a cycle ran to its end although an item before the last
\* one raised.
C6_Witness ==
    /\ cPc = "done"
    /\ \E i \in 1..(Len(iHist) - 1) : iHist[i].faulted /\ iHist[i + 1].result = "created"

\* text.strip() is not empty
NonBlank(text) == \E i \in 1..Len(text) : ch(text, i) \notin Whitespace

\* Calls that went past the duplicate lookup and met no exception.
Fetching(h) == h.fetched # <<>> /\ ~h.faulted

IsBank(h) == EndsWith(h.normalized_url.host, "bank.gov.ua")

\* The call obtained no usable body text: for bank.gov.ua no page, no
\* extracted body or a body is_reliable_nbu_body rejects; elsewhere a blank
\* feed summary together with no page or a page nothing is extracted from.
NoUsableBody(h) ==
    IF IsBank(h)
    THEN h.served[1] = NoPage \/ h.served[1].nbu = "" \/ ~h.served[1].reliable
    ELSE /\ ~NonBlank(h.summary)
         /\ \/ h.summary_html = NoPage
            \/ ~NonBlank(h.summary_html.meta) /\ h.summary_html.article = ""

\* C11: ingest_one returns created only with a body text that is not empty
\* after normalization, and stores it; a call that obtains no usable body
\* text returns skipped_no_body and adds no row.
C11_CreatedOnlyWithBody ==
    \A i \in 1..Len(iHist) :
        /\ iHist[i].result = "created"
              => /\ iHist[i].summary_text # None
                 /\ NonBlank(iHist[i].summary_text)
                 /\ iHist[i].summary_text = Strip(iHist[i].summary_text)
                 /\ \E a \in iHist[i].stored : a.summary = iHist[i].summary_text
        /\ (Fetching(iHist[i]) /\ NoUsableBody(iHist[i]))
              => iHist[i].result = "skipped_no_body" /\ iHist[i].added = 0
        /\ iHist[i].result = "skipped_no_body" => iHist[i].added = 0

\* C11 witness: a bank.gov.ua page whose body is_reliable_nbu_body rejects
\* was skipped, a blank feed summary with no page was skipped, and a feed
\* summary with no page was stored in its normalized form.
C11_Witness ==
    /\ \E i \in 1..Len(iHist) :
          /\ iHist[i].result = "skipped_no_body"
          /\ \/ IsBank(iHist[i]) /\ iHist[i].served[1] # NoPage
                    /\ iHist[i].served[1].nbu # "" /\ ~iHist[i].served[1].reliable
             \/ ~IsBank(iHist[i]) /\ iHist[i].summary = " \n "
                    /\ iHist[i].summary_html = NoPage
    /\ \E i \in 1..Len(iHist) :
          /\ iHist[i].result = "created"
          /\ iHist[i].summary = Teaser
          /\ iHist[i].summary_html = NoPage
          /\ iHist[i].summary_text
                 = "Teaser of the feed in two lines.\n\nSecond paragraph."

\* The address a call is about: the target of a Google News link, else the
\* address given.
Unwrapped(url) ==
    IF EndsWith(url.host, "news.google.com") /\ url.thost # ""
    THEN Url(url.thost, url.tpath) ELSE url

\* The call is about a DPS news article (under /media-tsentr/novini/, with
\* an identifier), given by its article or its print address.
IsTaxNews(h) ==
    /\ EndsWith(Unwrapped(h.url).host, "tax.gov.ua")
    /\ tax_print_url(Unwrapped(h.url)) # NoUrl

IsTax(h) == EndsWith(h.normalized_url.host, "tax.gov.ua")

\* The article address of a DPS news item: .../<id>.html.
ArticleUrl(h) ==
    Url(Unwrapped(h.url).host,
        TAX_NEWS_PATH_PREFIX
            \o TaxIdSearch(AfterLast(RStripChar(Unwrapped(h.url).path, "/"), "/")) \o ".html")

PrintUrl(h) == tax_print_url(Unwrapped(h.url))

\* C12: a DPS news item given by its print address is handled under its
\* article address: normalized_url and the stored row carry the article
\* address, the article address is the first one fetched, the print
\* address the second, and the image base is the article address; given
\* by its article address it is stored under that address.
C12_PrintCanonicalized ==
    \A i \in 1..Len(iHist) :
        IsTaxNews(iHist[i]) =>
            /\ iHist[i].normalized_url = ArticleUrl(iHist[i])
            /\ \A a \in iHist[i].stored : a.url = ArticleUrl(iHist[i])
            /\ Fetching(iHist[i]) =>
                  /\ iHist[i].fetched[1] = ArticleUrl(iHist[i])
                  /\ Len(iHist[i].fetched) >= 2 => iHist[i].fetched[2] = PrintUrl(iHist[i])
            /\ iHist[i].image_base \in {NoUrl, ArticleUrl(iHist[i])}

\* The part of C12 about an article address: the row is stored under it.
C12_ArticleUnchanged ==
    \A i \in 1..Len(iHist) :
        (IsTaxNews(iHist[i]) /\ iHist[i].url = ArticleUrl(iHist[i]))
            => \A a \in iHist[i].stored : a.url = iHist[i].url

\* C16: for a tax.gov.ua item whose print version was fetched, no feed
\* teaser is handed to choose_summary, and the stored body is the text of
\* the print page, not the teaser.
C16_PrintBodyNotTeaser ==
    \A i \in 1..Len(iHist) :
        (IsTax(iHist[i]) /\ Fetching(iHist[i]) /\ iHist[i].summary_html \in PrintPages)
            => /\ iHist[i].provided \in {NotHanded, None, ""}
               /\ \A a \in iHist[i].stored :
                     /\ a.summary = iHist[i].summary_html.article
                     /\ ~NonBlank(iHist[i].summary) \/ a.summary # normalize_text(iHist[i].summary)

\* The image addresses a page offers that are not previews.
NonPreview(page) ==
    {c \in {page.images[k] : k \in 1..Len(page.images)} \cup ({page.other} \ {""}) :
        ~Contains(c, "preview")}

\* C17: for a tax.gov.ua item the stored image address does not contain
\* "preview" when the page the image is taken from offers an image that is
\* not a preview.
C17_NonPreviewPreferred ==
    \A i \in 1..Len(iHist) :
        (IsTax(iHist[i]) /\ NonPreview(iHist[i].image_html) # {})
            => \A a \in iHist[i].stored : ~Contains(a.image_url.path, "preview")

\* C18: for a DPS news item the article address is fetched first and the
\* print address second; when the first fetch gave nothing and the print
\* fetch gave a page, the article address is fetched once more and that
\* page is the image source; no other fetch is made.
C18_ArticlePrintArticle ==
    \A i \in 1..Len(iHist) :
        (IsTaxNews(iHist[i]) /\ Fetching(iHist[i])) =>
            /\ Len(iHist[i].fetched) >= 2
            /\ iHist[i].fetched[1] = ArticleUrl(iHist[i])
            /\ iHist[i].fetched[2] = PrintUrl(iHist[i])
            /\ IF iHist[i].served[1] = NoPage /\ iHist[i].served[2] # NoPage
               THEN /\ iHist[i].fetched
                          = <<ArticleUrl(iHist[i]), PrintUrl(iHist[i]), ArticleUrl(iHist[i])>>
                    /\ iHist[i].image_html = iHist[i].served[3]
               ELSE Len(iHist[i].fetched) = 2

\* What the calls about DPS news items do fetch: the print address alone
\* when the item is given by its article or print address, the article
\* address and then the print address when it is the target of a Google
\* News link; never a third page.
TaxNewsFetches ==
    \A i \in 1..Len(iHist) :
        (IsTaxNews(iHist[i]) /\ Fetching(iHist[i])) =>
            iHist[i].fetched = IF iHist[i].url = Unwrapped(iHist[i].url)
                               THEN <<PrintUrl(iHist[i])>>
                               ELSE <<ArticleUrl(iHist[i]), PrintUrl(iHist[i])>>

\* The part of C16 about the stored body: it is never the feed teaser.
C16_TeaserNotStored ==
    \A i \in 1..Len(iHist) :
        (IsTax(iHist[i]) /\ iHist[i].summary_html \in PrintPages /\ NonBlank(iHist[i].summary))
            => \A a \in iHist[i].stored : a.summary # normalize_text(iHist[i].summary)

(***************************************************************************)
(* Properties of the body extractors                                       *)
(***************************************************************************)

\* C9: for a page whose article body is followed by a share block, the
\* text extract_tax_body returns holds neither the text of the share block
\* nor the text of a block that follows it.
C9_NothingFromShareBlockOn ==
    (/\ xOut.fn = "extract_tax_body"
     /\ xOut.result # None
     /\ xShape.body \notin {"empty", "blank"}
     /\ xShape.share # "none")
        => /\ ~Contains(xOut.result, ShareText)
           /\ ~Contains(xOut.result, FooterText)

\* The first paragraph of a body that opens with article content holding
\* a time or a date.
LeadOf(body) == IF body = "timed" THEN TimedPara ELSE DatedPara

\* C21: a first block that holds article content (a paragraph that mentions
\* a time of day, or that starts with a date and goes on) is kept in what
\* extract_article_text and extract_tax_body return; only a block that is
\* nothing but a date is dropped as the published-at line.
C21_ContentLeadKept ==
    (/\ xOut.fn \in {"extract_article_text", "extract_tax_body"}
     /\ xShape.body \in {"timed", "dated"}
     /\ xOut.result # None)
        => Contains(xOut.result, LeadOf(xShape.body))

\* C21, the cases in which the code does keep the paragraph:
\* extract_tax_body keeps one that mentions a time of day (DATE_PATTERN has
\* no time of day), extract_article_text one that starts with a date and
\* holds no time of day.
C21_KeptWhereNoPatternFound ==
    (/\ \/ xOut.fn = "extract_tax_body" /\ xShape.body = "timed"
        \/ xOut.fn = "extract_article_text" /\ xShape.body = "dated"
     /\ xOut.result # None)
        => Contains(xOut.result, LeadOf(xShape.body))

\* C21, the cases in which it does not: extract_article_text given the
\* paragraph with a time of day as the first block, extract_tax_body given
\* the paragraph that starts with a date and no date line before it.
C21_DroppedWherePatternFound ==
    (/\ \/ xOut.fn = "extract_article_text" /\ xShape.body = "timed"
        \/ xOut.fn = "extract_tax_body" /\ xShape.body = "dated"
     /\ xShape.meta = "none"
     /\ xOut.result # None)
        => ~Contains(xOut.result, LeadOf(xShape.body))

\* C10: what an extractor returns is None or a string that is not empty
\* after stripping.
C10_NoneOrNonBlank ==
    xOut.fn # "" => (xOut.result = None \/ NonBlank(xOut.result))

\* C10 witness: extract_body_fallback_generic returned a text cut at its
\* cap for a page longer than the cap.
C10_Witness ==
    /\ xOut.fn = "extract_body_fallback_generic"
    /\ xShape.body = "huge"
    /\ Len(xOut.result) = GENERIC_MAX_LEN
    /\ NonBlank(xOut.result)

\* The characters of text after its last whitespace character.
LastToken(text) ==
    IF \A i \in 1..Len(text) : ch(text, i) \notin Whitespace THEN text
    ELSE LET k == CHOOSE k \in 0..(Len(text) - 1) :
                      /\ ch(text, Len(text) - k) \in Whitespace
                      /\ \A j \in 0..(k - 1) : ch(text, Len(text) - j) \notin Whitespace
         IN SubSeq(text, Len(text) - k + 1, Len(text))

\* token stands in text as a whole word: whitespace or an end of the text on
\* both of its sides.
WholeWordOf(text, token) ==
    \E i \in 1..(Len(text) - Len(token) + 1) :
        /\ i = 1 \/ ch(text, i - 1) \in Whitespace
        /\ i + Len(token) > Len(text) \/ ch(text, i + Len(token)) \in Whitespace
        /\ SubSeq(text, i, i + Len(token) - 1) = token

\* The extractors ingestion takes a body from.
IngestExtractors ==
    {"extract_article_text", "extract_nbu_body", "extract_body_fallback_generic"}

\* C19: the text an extractor used for ingestion returns is at most 5000
\* characters long, at most MAX_ARTICLE_CHARS for extract_article_text, and
\* it ends with a whole word of the page, never with a part of one.
C19_CappedOnBoundary ==
    (xOut.fn \in IngestExtractors /\ xOut.result # None)
        => /\ Len(xOut.result)
                  <= (IF xOut.fn = "extract_article_text" THEN MAX_ARTICLE_CHARS ELSE 5000)
           /\ WholeWordOf(NodeText(xPage.dom, 1, " "), LastToken(xOut.result))

\* The cap alone: no returned text is longer than 5000 characters.
C19_WithinCap ==
    (xOut.fn \in IngestExtractors /\ xOut.result # None) => Len(xOut.result) <= 5000

\* The boundary alone: every returned text ends with a whole word of the page.
C19_EndsOnWord ==
    (xOut.fn \in IngestExtractors /\ xOut.result # None)
        => WholeWordOf(NodeText(xPage.dom, 1, " "), LastToken(xOut.result))

(***************************************************************************)
(* Properties of the preview renderer                                      *)
(***************************************************************************)

\* The variants build_variant has returned so far.
ReturnedVariants == {v \in {PREVIEW_WITH_IMAGE, PREVIEW_WITHOUT_IMAGE} : pPath[v] # ""}

\* C1: the with_image text build_preview_variants returns has a visible
\* length of at most 1024 and the without_image text one of at most 4096,
\* whatever the title, the review, the link and the tags.
C1_WithinLimits ==
    \A v \in ReturnedVariants : visible_length(pOut[v]) <= TotalLimit(v)

\* C1 witness: both variants were returned for a title longer than a
\* message, a review and tags, each cut down to its limit.
C1_Witness ==
    /\ pPc = "returned"
    /\ Len(pInput.title) > WITHOUT_IMAGE_LIMIT
    /\ pInput.review_md # ""
    /\ pInput.tags # ""
    /\ pPath = [with_image |-> "truncated", without_image |-> "truncated"]
    /\ visible_length(pOut.with_image) = WITH_IMAGE_LIMIT
    /\ visible_length(pOut.without_image) = WITHOUT_IMAGE_LIMIT

\* The markup tags of a text in order, each as the text between its angle
\* brackets; st.i is the index from which the text is still to be read.
tags_step(t, st, tag) ==
    IF tag[1] = 0 THEN [st EXCEPT !.i = Len(t) + 1]
    ELSE [i |-> tag[2] + 1, tags |-> Append(st.tags, SubSeq(t, tag[1] + 1, tag[2] - 1))]

RECURSIVE tags_scan(_, _, _)
tags_scan(t, st, fuel) ==
    IF st.i > Len(t) \/ fuel = 0 THEN st
    ELSE IF fuel = 1 THEN tags_step(t, st, NextTag(t, st.i))
    ELSE LET half == tags_scan(t, st, fuel \div 2)
         IN IF half.i > Len(t) THEN half ELSE tags_scan(t, half, fuel - fuel \div 2)

TagsOf(t) == tags_scan(t, [i |-> 1, tags |-> <<>>], Count(t, {">"}) + 1).tags

\* The name of an opening tag: its text up to the first blank.
OpenName(body) ==
    IF FirstIn(body, 1, Whitespace) = 0 THEN body
    ELSE SubSeq(body, 1, FirstIn(body, 1, Whitespace) - 1)

\* The tags are read in order against the stack of tags that are open: a
\* closing tag must close the tag opened last.
nesting_step(st, body) ==
    IF StartsWith(body, "/")
    THEN IF st.open # <<>> /\ st.open[Len(st.open)] = SubSeq(body, 2, Len(body))
         THEN [st EXCEPT !.open = SubSeq(@, 1, Len(@) - 1)]
         ELSE [st EXCEPT !.ok = FALSE]
    ELSE [st EXCEPT !.open = Append(@, OpenName(body)),
                    !.ok = @ /\ OpenName(body) \in {"b", "i", "code", "a"}]

RECURSIVE nesting_scan(_, _, _, _)
nesting_scan(tags, lo, hi, st) ==
    IF lo > hi \/ ~st.ok THEN st
    ELSE IF lo = hi THEN nesting_step(st, tags[lo])
    ELSE nesting_scan(tags, (lo + hi) \div 2 + 1, hi,
                      nesting_scan(tags, lo, (lo + hi) \div 2, st))

Nested(tags) == nesting_scan(tags, 1, Len(tags), [open |-> <<>>, ok |-> TRUE])

\* Every opening tag of the text has its closing tag, in nested order, and
\* no closing tag stands without its opening tag.
Balanced(text) == Nested(TagsOf(text)).ok /\ Nested(TagsOf(text)).open = <<>>

\* C2: in the variants build_preview_variants returns every opening markup
\* tag has its closing tag in nested order and no closing tag stands
\* without its opener, whether the text was cut or not.
C2_TagsBalanced ==
    \A v \in ReturnedVariants : Balanced(pOut[v])

\* C2 witness: a caption was cut inside the text of its link, after the
\* whole title, and the link was closed right after the mark of the cut.
C2_Witness ==
    /\ pPath.with_image = "truncated"
    /\ Contains(pOut.with_image, "</b>\n\n<a href=")
    /\ Contains(pOut.with_image, ELLIPSIS \o "</a>\n\n" \o subscribe_block)
    /\ Balanced(pOut.with_image)

\* C13: both variants build_preview_variants returns are non-empty and end
\* with the whole promo block, whatever had to be dropped or cut before it.
C13_PromoKept ==
    \A v \in ReturnedVariants : pOut[v] # "" /\ EndsWith(pOut[v], subscribe_block)

\* C13 witness: both variants were cut for a title longer than a message,
\* and each still ends with the promo block after the mark of the cut.
C13_Witness ==
    /\ pPc = "returned"
    /\ Len(pInput.title) > WITHOUT_IMAGE_LIMIT
    /\ pPath = [with_image |-> "truncated", without_image |-> "truncated"]
    /\ \A v \in ReturnedVariants : EndsWith(pOut[v], ELLIPSIS \o "</b>\n\n" \o subscribe_block)

\* The number of places of text at which part occurs.
Occurrences(text, part) == Cardinality({i \in 1..Len(text) : StartsAt(text, i, part)})

\* The reviews among the inputs that open with lines repeating the title
\* ShortTitle, plain or inside markers, between date lines, and hold the
\* title nowhere else.
TitledReviews == {BoldReview, HeadedReview}

\* C14: when the review opens with lines that repeat the title, plain or in
\* bold, italic or heading markers, between date lines, and the title
\* stands nowhere else in it, each returned variant holds the title once,
\* in its header, and none of the leading date lines.
C14_TitleOnce ==
    \A v \in ReturnedVariants :
        pInput.title = ShortTitle /\ pInput.review_md \in TitledReviews
            => /\ Occurrences(pOut[v], escape_text(ShortTitle)) = 1
               /\ ~Contains(pOut[v], PreambleDate)

(***************************************************************************)
(* Properties of the attempt log of staged_fetch_html                      *)
(***************************************************************************)

\* One entry for each step reached, in the order of the ladder, the last of
\* them the first step that returned html; a step without its engine is
\* the only kind of step written as skipped.
OneEntryPerStep ==
    /\ Len(fLog) <= Len(Steps)
    /\ \A i \in 1..Len(fLog) : fLog[i].step = Steps[i]
    /\ \A i \in 1..(Len(fLog) - 1) : ~fLog[i].gaveHtml
    /\ fPc = "running" => Len(fLog) = fStep - 1
    /\ fPc = "done" =>
          \/ fLog[Len(fLog)].gaveHtml /\ fResult = fLog[Len(fLog)].html
          \/ Len(fLog) = Len(Steps) /\ ~fLog[Len(fLog)].gaveHtml /\ fResult = None
    /\ \A i \in 1..Len(fLog) : fLog[i].kind = "skipped" <=> ~Installed(i, fCaps)
    /\ \A i \in 1..Len(fLog) :
          /\ fLog[i].kind = "status" => fLog[i].status \in Statuses
          /\ fLog[i].kind = "error" => fLog[i].error \notin {None, ""}

\* C15: the attempt log holds one entry for each ladder step reached, in
\* ladder order, ending with the first step that returned html; each entry
\* names the strategy with its HTTP status or its error, and a step whose
\* engine is not installed is written as skipped, never as an error.
C15_StatusOrError ==
    /\ OneEntryPerStep
    /\ \A i \in 1..Len(fLog) : fLog[i].kind \in {"status", "error", "skipped"}

(***************************************************************************)
(* Properties of parse_ukrainian_date                                      *)
(***************************************************************************)

\* Minutes from 1970-01-01T00:00 UTC to the start of a day in Kyiv, the day
\* given by its number of days from 1970-01-01.
KyivMidnight(days) ==
    days * 1440 - KyivOffsetOf(datetime(CivilFromDays(days).year, CivilFromDays(days).month,
                                        CivilFromDays(days).day, 0, 0, 0, 0, KYIV_TZ))

\* The calendar day in Kyiv of a reference: its own date if it is naive,
\* else the day in Kyiv within which its instant falls.
KyivDay(r) ==
    IF r.tzinfo = NoTz THEN [year |-> r.year, month |-> r.month, day |-> r.day]
    ELSE LET own == DaysFromCivil(r.year, r.month, r.day)
         IN CivilFromDays(CHOOSE days \in (own - 1)..(own + 1) :
                              /\ KyivMidnight(days) <= UtcMinutes(r)
                              /\ UtcMinutes(r) < KyivMidnight(days + 1))

WallTimeExists ==
    (dOut # NotParsed /\ dValue \in DOMAIN Clock /\ dReference # NoDatetime /\ dOut # NoDatetime)
        => LET back == astimezone([dOut EXCEPT !.tzinfo = FixedTz(utcoffset(dOut))])
           IN <<back.hour, back.minute>> = <<dOut.hour, dOut.minute>>


(***************************************************************************)
(* Properties of the order in which build_variant gives up text            *)
(***************************************************************************)

\* The tokens of tags_line.
TagsTokens == split(pLines.tags_line)

\* The numbers k for which the text ends with the first k tokens of the
\* tags before the promo block.
TagsShown(text) ==
    {k \in 1..Len(TagsTokens) :
        EndsWith(text, "\n\n" \o JoinWith(SubSeq(TagsTokens, 1, k), " ") \o "\n\n"
                           \o subscribe_block)}

\* The text opens with the whole title and holds the whole link line.
TitleAndLinkWhole(text) ==
    /\ StartsWith(text, pLines.header \o "\n\n")
    /\ Contains(text, "\n\n" \o pLines.link_line \o "\n\n")

\* C22: when build_variant returns, tags are missing from the text only if
\* the body is empty; the tags shown are the first tokens of the tags; and
\* when any tag is shown the title and the link line are whole, so that the
\* title or the link is cut only when no tag is left.
C22_DegradeInOrder ==
    pPass.returned =>
        /\ (pLines.tags_line # "" /\ Len(TagsTokens) \notin TagsShown(pPass.text))
               => pReviewMd = "" /\ pReviewHtml = ""
        /\ TagsShown(pPass.text) # {} => TitleAndLinkWhole(pPass.text)
        /\ ~TitleAndLinkWhole(pPass.text)
               => /\ TagsShown(pPass.text) = {}
                  /\ pReviewMd = ""
                  /\ pPass.path = "truncated"
        /\ pPass.path = "tags_dropped" => TagsShown(pPass.text) # {}

\* C22 witness: a caption was returned with the first of two tags after the
\* body had been shrunk to nothing, title and link whole.
C22_Witness ==
    /\ pPass.returned
    /\ pPc = PREVIEW_WITHOUT_IMAGE
    /\ pInput.review_md # ""
    /\ pReview # ""
    /\ pReviewMd = ""
    /\ Len(TagsTokens) = 2
    /\ TagsShown(pPass.text) = {1}
    /\ TitleAndLinkWhole(pPass.text)


(***************************************************************************)
(* Properties of the browser step                                          *)
(***************************************************************************)

C23_ClosedByFinally ==
    (bPc = "done" /\ bBrowser = "closed")
        => \E k \in 1..Len(bLog) : bLog[k] = <<"browser_close", "ok">>


(***************************************************************************)
(* Properties of the moderation handlers                                   *)
(***************************************************************************)

\* C24: every message sent to settings.CHANNEL_ID belongs to a draft whose
\* article has level1_ok = true, in any sequence of ingest_one, make_cmd,
\* approve_cmd and button presses, although the publish action checks no
\* level itself.
C24_ChannelLevel1Only ==
    \A k \in 1..Len(mChannel) :
        /\ mChannel[k].level1_ok
        /\ get_article(mChannel[k].article_id).level1_ok

\* C24 witness: the publish button sent a draft to the channel while the
\* articles table holds a row that is not level-1.
C24_Witness ==
    /\ mLast.cmd = "callback"
    /\ mLast.chat = "channel"
    /\ mLast.delivered
    /\ mChannel # <<>>
    /\ \E a \in articles : ~a.level1_ok

\* What the admin is told when a publication failed.
FailureReplies == {REPLY_SEND_FAILED, REPLY_PUBLISH_FAILED}

\* C27: approved becomes true only by a command whose send to the channel
\* came through; when the send of approve_cmd or of the publish action
\* raises, nothing is committed, approved stays as it was and the admin is
\* told that the publication failed.
C27_ApprovedAfterSend ==
    /\ mLast.draft_id \in 1..Len(mDrafts)
           => mDrafts[mLast.draft_id].approved = mLast.approved_after
    /\ (mLast.approved_after /\ ~mLast.approved_before)
           => mLast.chat = "channel" /\ mLast.delivered
    /\ (mLast.chat = "channel" /\ ~mLast.delivered)
           => /\ ~mLast.commit
              /\ mLast.approved_after = mLast.approved_before
              /\ mLast.reply \in FailureReplies
    /\ \A id \in 1..Len(mDrafts) :
           mDrafts[id].approved => \E k \in 1..Len(mChannel) : mChannel[k].draft_id = id

\* C27 witness: the send of /approve raised for a draft not yet approved,
\* and the draft is still not approved.
C27_Witness ==
    /\ mLast.cmd = "approve"
    /\ mLast.chat = "channel"
    /\ ~mLast.delivered
    /\ mLast.reply = REPLY_SEND_FAILED
    /\ ~mDrafts[mLast.draft_id].approved

\* C28: no message is sent to the channel for a draft that has
\* approved = true, so that a draft is published at most once.
C28_PublishedOnce ==
    /\ \A k \in 1..Len(mChannel) : ~mChannel[k].approved
    /\ \A j, k \in 1..Len(mChannel) : mChannel[j].draft_id = mChannel[k].draft_id => j = k


(***************************************************************************)
(* Properties of the admission whitelist                                   *)
(***************************************************************************)

\* The host is a level-1 entry or a subdomain of one.
UnderLevel1(host) == \E d \in WHITELIST_LEVEL1 : host = d \/ EndsWith(host, "." \o d)

\* C26: ingest_one lets a URL past the whitelist check only if its host is a
\* level-1 entry or a true subdomain of one; every other host, notoecd.org
\* among them, gets skipped_level1.
C26_LabelBoundary ==
    \A k \in 1..Len(iHist) :
        iHist[k].result # "skipped_level1" <=> UnderLevel1(domain(iHist[k].normalized_url))

\* What ingest_one does: a call is let past the check exactly if its host
\* ends with the characters of an entry.
C26_SuffixOfCharacters ==
    \A k \in 1..Len(iHist) :
        iHist[k].result # "skipped_level1"
            <=> \E d \in WHITELIST_LEVEL1 : EndsWith(domain(iHist[k].normalized_url), d)


(***************************************************************************)
(* Properties of ingest_one calls that overlap                             *)
(***************************************************************************)

\* The rows stored under the URL of the calls.
RaceRows == {a \in articles : a.url = normalize_url(rItem.url)}

C29_PromoOnce ==
    \A v \in ReturnedVariants :
        pInput \in DraftInputs => Occurrences(pOut[v], SUBSCRIBE_PROMO_URL) = 1

\* What build_preview_variants does with such a body: the promo block it
\* appends is always there, and the promo line of the body is rendered in
\* front of it unless the body was cut before that line; the bodies here
\* fit whole into the variant without image.
C29_PromoOfBodyKept ==
    \A v \in ReturnedVariants :
        pInput \in DraftInputs
            => /\ EndsWith(pOut[v], subscribe_block)
               /\ Occurrences(pOut[v], SUBSCRIBE_PROMO_URL) \in {1, 2}
               /\ v = PREVIEW_WITHOUT_IMAGE => Occurrences(pOut[v], SUBSCRIBE_PROMO_URL) = 2


(***************************************************************************)
(* Properties of the loop of build_variant                                 *)
(***************************************************************************)

\* The decision of the pass build_variant makes next, from the state it is
\* in.
decide_next(review_candidate_html) ==
    variant_decide(visible_length(candidate(pLines.header, review_candidate_html,
                                            pLines.link_line, pLines.tags_line)),
                   candidate(pLines.header, review_candidate_html, pLines.link_line,
                             pLines.tags_line),
                   pLines.header, review_candidate_html, pLines.link_line, pLines.tags_line,
                   pLimit, TotalLimit(pPc))

NextPass == decide_next(markdown_to_telegram_html(smart_trim(pReview, pLimit)))

\* The limit at a pass is not negative; the pass returns, or the limit is
\* above 0 and the pass lowers it by at least 1 and not below 0.
Shrinks(pass) ==
    /\ pLimit >= 0
    /\ pass.returned \/ (pLimit > 0 /\ pass.limit >= 0 /\ pass.limit <= pLimit - 1)

\* C30: the loop of build_variant ends for every input: each pass that does
\* not return lowers the limit by at least 1 and never below 0, the pass
\* with limit 0 returns, and build_preview_variants comes to return both
\* variants.
C30_ShrinkTerminates ==
    /\ [](InLoop => Shrinks(NextPass))
    /\ (pPc = PREVIEW_WITH_IMAGE)
           ~> (pPc = "returned" /\ pOut.with_image # "" /\ pOut.without_image # "")

\* C30 witness: a pass whose candidate did not fit lowered the limit, which
\* is still above 0, and the loop goes on.
C30_Witness ==
    /\ pPc \in BothKinds
    /\ ~pPass.returned
    /\ pLength > TotalLimit(pPc)
    /\ pPass.limit = pLimit
    /\ pLimit > 0

====
